---- MODULE Spec2Model ----
(***************************************************************************)
(* Model of the llm_evaluator evaluation engine:                           *)
(*   service/scorer.py        ResponseScorer.parse_index / evaluate         *)
(*   service/pipeline.py      EvaluationPipeline.process_single_task / run  *)
(*   infrastructure/ollama.py OllamaClient.generate                         *)
(*   infrastructure/storage.py ResultWriter                                 *)
(*                                                                         *)
(* Texts are sequences of one-character strings.  An Optional[int] is the   *)
(* empty tuple (None) or a one-element tuple.                               *)
(***************************************************************************)
EXTENDS Integers, Sequences, FiniteSets, TLC

(***************************************************************************)
(* Bounds of the model.                                                    *)
(***************************************************************************)
MaxRows == 3
MaxC == 2
MaxStubRows == 2
MaxLiveRows == 2

(***************************************************************************)
(* Optional[int]                                                           *)
(***************************************************************************)
None == <<>>
Some(i) == <<i>>

\* The ground-truth values the task source carries: absent, option 0, option 1.
GroundTruths == {None, Some(0), Some(1)}

(***************************************************************************)
(* Characters (str of length one) and the classes the regexes use.          *)
(***************************************************************************)
Digits == {"0", "1", "2", "3", "4", "5", "6", "7", "8", "9"}

DigitVal(c) ==
    CASE c = "0" -> 0 [] c = "1" -> 1 [] c = "2" -> 2 [] c = "3" -> 3
      [] c = "4" -> 4 [] c = "5" -> 5 [] c = "6" -> 6 [] c = "7" -> 7
      [] c = "8" -> 8 [] c = "9" -> 9

\* \s
IsSpace(c) == c \in {" ", "\n", "\t"}

\* the characters that are neither letters, digits nor underscore
NonWord == {" ", "\n", "\t", ":", "-", ".", ",", "'"}

\* \w : everything of the alphabet that is not punctuation or white space
IsWord(c) == c \notin NonWord

\* re.IGNORECASE folding of the letters of the literal ANSWER
Fold(c) ==
    CASE c = "a" -> "A" [] c = "n" -> "N" [] c = "s" -> "S"
      [] c = "w" -> "W" [] c = "e" -> "E" [] c = "r" -> "R"
      [] OTHER -> c

AnswerLiteral == <<"A", "N", "S", "W", "E", "R">>

(***************************************************************************)
(* ResponseScorer.parse_index                                              *)
(***************************************************************************)
RECURSIVE SkipSpace(_, _)
\* \s* from position i: the first position at or after i that holds no white space
SkipSpace(s, i) ==
    IF i <= Len(s) /\ IsSpace(s[i]) THEN SkipSpace(s, i + 1) ELSE i

RECURSIVE DigitsEnd(_, _)
\* (\d+) from position i, greedy: the last position of the run, i - 1 if there is none
DigitsEnd(s, i) ==
    IF i <= Len(s) /\ s[i] \in Digits THEN DigitsEnd(s, i + 1) ELSE i - 1

RECURSIVE ToInt(_, _, _)
\* int(s[a..b]) for a run of decimal digits
ToInt(s, a, b) ==
    IF b < a THEN 0 ELSE 10 * ToInt(s, a, b - 1) + DigitVal(s[b])

\* the literal ANSWER, case-insensitively, at position i
LiteralAt(s, i) ==
    /\ i + Len(AnswerLiteral) - 1 <= Len(s)
    /\ \A k \in 1..Len(AnswerLiteral) : Fold(s[i + k - 1]) = AnswerLiteral[k]

\* where group 1 of ANSWER\s*[:\-]?\s*(\d+) starts when the pattern is tried at i
AnswerGroupStart(s, i) ==
    LET k == SkipSpace(s, i + Len(AnswerLiteral))
        p == IF k <= Len(s) /\ s[k] \in {":", "-"} THEN k + 1 ELSE k
    IN  SkipSpace(s, p)

\* _ANSWER_PATTERN matches at position i
AnswerMatchAt(s, i) ==
    /\ LiteralAt(s, i)
    /\ DigitsEnd(s, AnswerGroupStart(s, i)) >= AnswerGroupStart(s, i)

\* the positions where \b(\d+)\b matches: a maximal digit run with a word
\* boundary on both sides
BareIntStarts(s) ==
    {a \in 1..Len(s) :
        /\ s[a] \in Digits
        /\ (a = 1 \/ ~IsWord(s[a - 1]))
        /\ (DigitsEnd(s, a) = Len(s) \/ ~IsWord(s[DigitsEnd(s, a) + 1]))}

Min(S) == CHOOSE x \in S : \A y \in S : x <= y
Max(S) == CHOOSE x \in S : \A y \in S : x >= y

\* parse_index with the first bare integer as its fallback: a faulty variant,
\* to show that C23 depends on which integer the fallback takes
M_parse_index(raw_output) ==
    LET hits == {i \in 1..Len(raw_output) : AnswerMatchAt(raw_output, i)}
        bare == BareIntStarts(raw_output)
    IN  IF Len(raw_output) = 0 THEN -1
        ELSE IF hits # {}
             THEN LET g == AnswerGroupStart(raw_output, Min(hits))
                  IN  ToInt(raw_output, g, DigitsEnd(raw_output, g))
        ELSE IF bare # {}
             THEN ToInt(raw_output, Min(bare), DigitsEnd(raw_output, Min(bare)))
        ELSE -1

parse_index(raw_output) ==
    LET hits == {i \in 1..Len(raw_output) : AnswerMatchAt(raw_output, i)}
        bare == BareIntStarts(raw_output)
    IN  IF Len(raw_output) = 0 THEN -1
        ELSE IF hits # {}
             THEN LET g == AnswerGroupStart(raw_output, Min(hits))
                  IN  ToInt(raw_output, g, DigitsEnd(raw_output, g))
        ELSE IF bare # {}
             THEN ToInt(raw_output, Max(bare), DigitsEnd(raw_output, Max(bare)))
        ELSE -1

\* evaluate with the None test answering True: a faulty variant, to show that
\* C7 depends on the test
M_evaluate(parsed_index, ground_truth_index) ==
    IF ground_truth_index = None THEN TRUE
    ELSE parsed_index = ground_truth_index[1]

(***************************************************************************)
(* ResponseScorer.evaluate                                                 *)
(***************************************************************************)
evaluate(parsed_index, ground_truth_index) ==
    IF ground_truth_index = None THEN FALSE
    ELSE parsed_index = ground_truth_index[1]

(***************************************************************************)
(* Exceptions.  Every exception is a record of its class and of what its    *)
(* message carries (attempt count, cause, HTTP status).                     *)
(***************************************************************************)
Exc(cls) == [cls |-> cls, attempts |-> 0, cause |-> "", status |-> 0]

NoExc == Exc("")

\* the classes that derive from Exception; asyncio.CancelledError derives
\* from BaseException only
ExceptionClasses ==
    {"TypeError", "AttributeError", "OSError", "LLMConnectionError",
     "ReadTimeout", "ConnectError", "ConnectTimeout", "HTTPStatusError",
     "ZeroDivisionError", "ValidationError", "DataValidationError"}

\* an except clause that names the connection error alone: a faulty variant,
\* to show that C3 depends on the clause
M_CaughtByTask(e) == e.cls = "LLMConnectionError"

\* `except Exception` of process_single_task
CaughtByTask(e) == e.cls \in ExceptionClasses

(***************************************************************************)
(* What one HTTP exchange does: the transport raises, or an HTTP response   *)
(* with a status code and the "response" text of its JSON body arrives      *)
(* after elapsed milliseconds.                                              *)
(***************************************************************************)
HttpOk(text) == [exc |-> "", status |-> 200, text |-> text, elapsed |-> 7]
HttpStatus(code) == [exc |-> "", status |-> code, text |-> <<>>, elapsed |-> 1]
HttpRaises(cls) == [exc |-> cls, status |-> 0, text |-> <<>>, elapsed |-> 0]

(***************************************************************************)
(* What `await client.generate(...)` does for its caller: it returns an     *)
(* LLMResponse or raises.                                                   *)
(***************************************************************************)
Returned(text, latency) ==
    [kind |-> "response", raw_content |-> text, client_latency_ms |-> latency,
     exc |-> NoExc]

Raised(e) ==
    [kind |-> "raise", raw_content |-> <<>>, client_latency_ms |-> 0, exc |-> e]

Pending == [kind |-> "pending", raw_content |-> <<>>, client_latency_ms |-> 0,
            exc |-> NoExc]

(***************************************************************************)
(* OllamaClient.generate(self, prompt, options_override)                    *)
(*                                                                         *)
(* One call is a record: pc (entry, post, sleep, returned, raised), the     *)
(* loop variable attempt, the HTTP requests posted, the 5-second sleeps     *)
(* taken and the outcome handed to the caller.                              *)
(***************************************************************************)
\* max_retries = 3
max_retries == 3

\* asyncio.sleep(5)
RetryDelaySeconds == 5

\* the parameters after self, none of which has a default
GenerateParams == <<"prompt", "options_override">>

\* process_single_task of the pipeline passes the prompt alone
PipelineCallArgs == <<"prompt">>

\* AutoTuner._process_single_task passes the prompt and options_override
TunerCallArgs == <<"prompt", "options_override">>

\* Python binds the arguments of a call before the body runs; a parameter
\* without default that gets no argument is a TypeError
BindsArguments(args) ==
    \A k \in 1..Len(GenerateParams) :
        \E j \in 1..Len(args) : args[j] = GenerateParams[k]

\* except (httpx.ReadTimeout, httpx.ConnectError): httpx.ConnectTimeout is
\* neither (it derives from TimeoutException, beside ReadTimeout)
RetriedClasses == {"ReadTimeout", "ConnectError"}

NewCall ==
    [pc |-> "entry", attempt |-> 0, posts |-> 0, sleeps |-> 0, out |-> Pending]

Finish(g, out) ==
    [g EXCEPT !.pc = IF out.kind = "response" THEN "returned" ELSE "raised",
              !.out = out]

\* the instance attributes OllamaClient.__init__ leaves as far as the
\* session is concerned: it assigns None to self.client and nothing to
\* self._client
AfterInit == [client |-> "None"]

\* __aenter__: self._client = httpx.AsyncClient(...)
aenter(self) ==
    [a \in DOMAIN self \cup {"_client"} |->
        IF a = "_client" THEN "AsyncClient" ELSE self[a]]

\* `if self._client is None: raise RuntimeError(...)`: the exception the
\* test ends with ("" for none); reading an attribute the instance does not
\* have is an AttributeError
SessionCheck(self) ==
    IF "_client" \notin DOMAIN self THEN "AttributeError"
    ELSE IF self["_client"] = "None" THEN "RuntimeError"
    ELSE ""

\* the call itself and the code before the loop
GenEntry(g, args, self) ==
    IF ~BindsArguments(args) THEN Finish(g, Raised(Exc("TypeError")))
    ELSE IF SessionCheck(self) # ""
    THEN Finish(g, Raised(Exc(SessionCheck(self))))
    ELSE [g EXCEPT !.pc = "post", !.attempt = 0]

\* the connection error raised when the retries are exhausted
FailedAfter(cause) ==
    [cls |-> "LLMConnectionError", attempts |-> max_retries, cause |-> cause,
     status |-> 0]

\* the connection error raised for a non-2xx status
ApiError(code) ==
    [cls |-> "LLMConnectionError", attempts |-> 0, cause |-> "HTTPStatusError",
     status |-> code]

\* response.raise_for_status()
IsSuccess(code) == code >= 200 /\ code <= 299

\* the last pass of `for attempt in range(max_retries)`
LastAttempt(g) == g.attempt = max_retries - 1

\* HTTPStatusError handled like the retried classes: a faulty variant, to show
\* that C6 depends on the separate except clause
M_Disposition(http) ==
    IF http.exc = "" /\ IsSuccess(http.status) THEN "return"
    ELSE IF http.exc = "" THEN "retry"
    ELSE IF http.exc \in RetriedClasses THEN "retry"
    ELSE "propagate"

\* which branch of the try statement one HTTP exchange takes: the body runs
\* through (return), except (ReadTimeout, ConnectError) (retry), except
\* HTTPStatusError (api_error), or no clause matches (propagate)
Disposition(http) ==
    IF http.exc = "" /\ IsSuccess(http.status) THEN "return"
    ELSE IF http.exc = "" THEN "api_error"
    ELSE IF http.exc \in RetriedClasses THEN "retry"
    ELSE "propagate"

\* one pass of the loop body: post, then return, raise or go to sleep
GenPost(g, http) ==
    LET h == [g EXCEPT !.posts = g.posts + 1]
        d == Disposition(http)
    IN  CASE d = "return" -> Finish(h, Returned(http.text, http.elapsed))
          [] d = "api_error" -> Finish(h, Raised(ApiError(http.status)))
          [] d = "retry" ->
                IF LastAttempt(h)
                THEN Finish(h, Raised(FailedAfter(http.exc)))
                ELSE [h EXCEPT !.pc = "sleep"]
          [] OTHER -> Finish(h, Raised(Exc(http.exc)))

\* await asyncio.sleep(5), then the next pass
GenSleep(g) ==
    [g EXCEPT !.pc = "post", !.sleeps = g.sleeps + 1, !.attempt = g.attempt + 1]

GenDone(g) == g.pc \in {"returned", "raised"}

\* one step of a call on the client self against a server that answers
\* attempt k with script[k]
GenStep(g, args, script, self) ==
    CASE g.pc = "entry" -> GenEntry(g, args, self)
      [] g.pc = "post" -> GenPost(g, script[g.attempt + 1])
      [] g.pc = "sleep" -> GenSleep(g)
      [] OTHER -> g

RECURSIVE GenRun(_, _, _, _)
\* the call run to its end
GenRun(g, args, script, self) ==
    IF GenDone(g) THEN g
    ELSE GenRun(GenStep(g, args, script, self), args, script, self)

(***************************************************************************)
(* State.                                                                  *)
(***************************************************************************)
VARIABLES
    C,               \* settings.CONCURRENCY_LIMIT
    client,          \* the class of the client handed to process_single_task
    source,          \* the tasks the row iterator yields, in order
    stub,            \* what a stub client's generate does for each task
    server,          \* what the HTTP server answers to the k-th attempt of a call
    pc,              \* where run() stands
    rows_pulled,     \* how many tasks the for loop has taken from the iterator
    task_data,       \* the loop variable: the task pulled last
    pending_tasks,   \* the set pending_tasks of run()
    done,            \* the part of the set `done` the harvest loop has yet to visit
    task_state,      \* per asyncio task: new, scheduled, finished, cancelled
    task_out,        \* per asyncio task: what process_single_task returned or raised
    completed,       \* the tasks in the order in which they finished
    sink,            \* the rows written after the header
    header_written,  \* ResultWriter.__enter__ has written the header
    flushed,         \* how many lines written to the output have reached the file
    writer_open,     \* the output file is open
    client_open,     \* the httpx session is open
    total_processed, \* the counter of graded results
    total_correct,   \* the counter of correct results
    exc,             \* the exception propagating out of run(), NoExc if none
    report,          \* the final report: none, accuracy, no_rows
    accuracy,        \* the accuracy the report states, in percent, as a fraction
    gen,             \* a single generate call (SpecGen)
    gen_args,        \* the arguments that call is made with (SpecGen)
    client_attrs,    \* the instance attributes of the client of that call
    all_tasks,       \* the argument all_tasks of AutoTuner(...)
    sample_size,     \* the argument sample_size of AutoTuner(...)
    sample_tasks,    \* AutoTuner.sample_tasks
    n_trials,        \* AutoTuner.n_trials
    num_ctx,         \* whether the settings in use define OLLAMA_NUM_CTX
    loop_pc,         \* where the coroutine optimize() stands
    opt_pc,          \* where the worker thread running the study stands
    trial_no,        \* the number of the trial the study asked for last
    trials,          \* per trial: the state of _evaluate_trial_async
    values,          \* per trial: the value the study recorded for it
    outcomes,        \* two result lists over one sample (SpecScore)
    scores,          \* their scores, once reduced (SpecScore)
    norm_pc,         \* where stream_input stands: rows, eof, raised
    row_num,         \* the number of the row read last
    row_dict,        \* the row read last
    yielded,         \* what the loop body made of it: a task, or a skip
    n_yielded,       \* how many tasks stream_input has yielded
    n_skipped,       \* how many rows it has skipped
    output_text,     \* the model output handed to parse_index
    predicted_index, \* parsed_index: what parse_index returned, None before the call
    default_options, \* OllamaClient.default_options
    options_override, \* the argument options_override of a generate call
    final_options    \* final_options of that call, None before the call

vars ==
    <<C, client, source, stub, server, pc, rows_pulled, task_data, pending_tasks,
      done, task_state, task_out, completed, sink, header_written, flushed,
      writer_open, client_open, total_processed, total_correct, exc, report,
      accuracy, gen, gen_args, client_attrs,
      all_tasks, sample_size, sample_tasks, n_trials, num_ctx, loop_pc,
      opt_pc, trial_no, trials,
      values, outcomes, scores, norm_pc, row_num, row_dict, yielded,
      n_yielded, n_skipped, output_text, predicted_index, default_options,
      options_override, final_options>>

envVars == <<C, client, source, stub, server>>

runVars ==
    <<pc, rows_pulled, task_data, pending_tasks, done, task_state, task_out,
      completed, sink, header_written, flushed, writer_open, client_open,
      total_processed, total_correct, exc, report, accuracy>>

genVars == <<gen, gen_args, client_attrs>>

tunerVars ==
    <<all_tasks, sample_size, sample_tasks, n_trials, num_ctx, loop_pc,
      opt_pc, trial_no, trials,
      values>>

scoreVars == <<outcomes, scores>>

normVars == <<norm_pc, row_num, row_dict, yielded, n_yielded, n_skipped>>

scorerVars == <<output_text, predicted_index>>

optionVars == <<default_options, options_override, final_options>>

(***************************************************************************)
(* EvaluationPipeline.process_single_task                                   *)
(***************************************************************************)
EvaluationResult(task, raw, parsed, correct, latency) ==
    [task_id |-> task.id,
     raw_llm_output |-> raw,
     parsed_index |-> parsed,
     ground_truth_index |-> task.ground_truth_index,
     is_correct |-> correct,
     latency_ms |-> latency]

\* raw_llm_output of a completed task: the model's text
ModelText(text) == [error |-> FALSE, text |-> text, exc |-> NoExc]

\* raw_llm_output of a failed task: f"ERROR: {str(e)}"
ErrorText(e) == [error |-> TRUE, text |-> <<>>, exc |-> e]

NoResult ==
    [task_id |-> 0, raw_llm_output |-> ModelText(<<>>), parsed_index |-> -1,
     ground_truth_index |-> None, is_correct |-> FALSE, latency_ms |-> 0]

\* what the coroutine ends with: a result, or an exception that leaves it
TaskReturns(res) == [raised |-> FALSE, exc |-> NoExc, result |-> res]
TaskRaises(e) == [raised |-> TRUE, exc |-> e, result |-> NoResult]
NotRun == [raised |-> FALSE, exc |-> NoExc, result |-> NoResult]

\* the try branch, once generate has returned llm_response
CompletedResult(task, llm_response) ==
    LET parsed_index == parse_index(llm_response.raw_content)
        is_correct == evaluate(parsed_index, task.ground_truth_index)
    IN  EvaluationResult(task, ModelText(llm_response.raw_content),
                         parsed_index, is_correct,
                         llm_response.client_latency_ms)

\* the except branch
FailedResult(task, e) == EvaluationResult(task, ErrorText(e), -1, FALSE, 0)

\* process_single_task, given what `await client.generate(...)` does
process_single_task(task, outcome) ==
    IF outcome.kind = "response"
        THEN TaskReturns(CompletedResult(task, outcome))
    ELSE IF CaughtByTask(outcome.exc)
        THEN TaskReturns(FailedResult(task, outcome.exc))
    ELSE TaskRaises(outcome.exc)

\* `await client.generate(task.formatted_prompt)` for task t: an OllamaClient
\* runs generate with the one argument the pipeline passes; a stub client does
\* what the stub says; the tasks run inside `async with OllamaClient() as
\* client`
ClientGenerate(t) ==
    IF client = "OllamaClient"
        THEN GenRun(NewCall, PipelineCallArgs, server, aenter(AfterInit)).out
        ELSE stub[t]

(***************************************************************************)
(* EvaluationPipeline.run                                                   *)
(*                                                                         *)
(* pc: start, iter (the for statement asks the iterator for a row), create, *)
(* wait_first and wait_all (suspended in asyncio.wait), harvest_first and   *)
(* harvest_all (the loops over `done`), finally, report, aexit, and the two *)
(* ends done (returned) and raised (an exception left run).                 *)
(*                                                                         *)
(* The event loop is single-threaded: the coroutines of the created tasks   *)
(* run only while run() is suspended in asyncio.wait.                       *)
(***************************************************************************)
Tasks == 1..Len(source)

Finished(t) == task_state[t] = "finished"

\* the capacity test with > for >=: a faulty variant, to show that C2 depends
\* on the test
M_AtCapacity == Cardinality(pending_tasks) > C

\* len(pending_tasks) >= settings.CONCURRENCY_LIMIT
AtCapacity == Cardinality(pending_tasks) >= C

\* what asyncio.wait(..., FIRST_COMPLETED) returns as done once it resumes
DoneOf(fs) == {t \in fs : Finished(t)}

\* a wait that may return before any task has finished: a faulty variant,
\* to show that C28 depends on the wait for a completion
M_FirstCompleted(fs) == TRUE

\* FIRST_COMPLETED: the wait is over when some task of the set has finished
FirstCompleted(fs) == \E t \in fs : Finished(t)

\* the drain waiting for the first completion only: a faulty variant, to show
\* that C10 depends on ALL_COMPLETED
M_AllCompleted(fs) == \E t \in fs : Finished(t)

\* ALL_COMPLETED: the wait is over when every task of the set has finished
AllCompleted(fs) == \A t \in fs : Finished(t)

\* pending_tasks left as it was (done, _ = ...): a faulty variant, to show that
\* C1 depends on the reassignment
M_StillPending(fs) == fs

\* done, pending_tasks = await asyncio.wait(...): the new pending_tasks
StillPending(fs) == fs \ DoneOf(fs)

\* if res.ground_truth_index is not None
IsGraded(res) == res.ground_truth_index # None

\* the counter bumped for every result: a faulty variant, to show that C8
\* depends on the ground-truth test
M_ProcessedAfter(n, res) == n + 1

\* total_processed after handle_result(res)
ProcessedAfter(n, res) == IF IsGraded(res) THEN n + 1 ELSE n

\* total_correct after handle_result(res)
CorrectAfter(n, res) == IF IsGraded(res) /\ res.is_correct THEN n + 1 ELSE n

\* writer.write_result(res.to_csv_row()): one row more, if the writer is set up
WriteResult(rows, res) == IF header_written THEN Append(rows, res) ELSE rows

\* a file opened with block buffering, where what is written stays in the
\* buffer: a faulty variant, to show that C24 depends on the line buffering
M_AfterWrite(written, on_disk) == on_disk

\* open(..., buffering=1): the lines on disk once a line has been written;
\* the text layer flushes at every line end, so all lines written are there
AfterWrite(written, on_disk) == written

\* self._file.close(): what is still buffered reaches the file
AfterClose(written, on_disk) == written

\* a harvest loop that goes back to the iterator without creating the task of
\* the row in hand: a faulty variant, to show that C13 depends on every pulled
\* row being dispatched
M_AfterHarvest == IF pc = "harvest_first" THEN "iter" ELSE "finally"

\* where the harvest loop leads once `done` is used up
AfterHarvest == IF pc = "harvest_first" THEN "create" ELSE "finally"

\* async with OllamaClient() as client: with ResultWriter(output_file) as writer:
Enter ==
    /\ pc = "start"
    /\ client_open' = TRUE
    /\ writer_open' = TRUE
    /\ header_written' = TRUE
    /\ flushed' = AfterWrite(1, flushed)
    /\ pc' = "iter"
    /\ UNCHANGED <<rows_pulled, task_data, pending_tasks, done, task_state,
                   task_out, completed, sink, total_processed, total_correct,
                   exc, report>>
    /\ UNCHANGED accuracy
    /\ UNCHANGED <<envVars, genVars, tunerVars, scoreVars, normVars, scorerVars,
                 optionVars>>

\* ResultWriter.__enter__ cannot open the output file: the exception leaves
\* the `with` statement before the loop is entered
OpenFails ==
    /\ pc = "start"
    /\ client_open' = TRUE
    /\ exc' = Exc("OSError")
    /\ pc' = "aexit"
    /\ UNCHANGED <<rows_pulled, task_data, pending_tasks, done, task_state,
                   task_out, completed, sink, header_written, writer_open,
                   total_processed, total_correct, report>>
    /\ UNCHANGED <<flushed, accuracy>>
    /\ UNCHANGED <<envVars, genVars, tunerVars, scoreVars, normVars, scorerVars,
                 optionVars>>

\* for task_data in row_iterator: the iterator raises (the input file cannot
\* be decoded or read any further)
SourceFails ==
    /\ pc = "iter"
    /\ exc' = Exc("OSError")
    /\ pc' = "finally"
    /\ UNCHANGED <<rows_pulled, task_data, pending_tasks, done, task_state,
                   task_out, completed, sink, header_written, writer_open,
                   client_open, total_processed, total_correct, report>>
    /\ UNCHANGED <<flushed, accuracy>>
    /\ UNCHANGED <<envVars, genVars, tunerVars, scoreVars, normVars, scorerVars,
                 optionVars>>

\* for task_data in row_iterator: a row is there
PullRow ==
    /\ pc = "iter"
    /\ rows_pulled < Len(source)
    /\ rows_pulled' = rows_pulled + 1
    /\ task_data' = rows_pulled + 1
    /\ pc' = IF AtCapacity THEN "wait_first" ELSE "create"
    /\ UNCHANGED <<pending_tasks, done, task_state, task_out, completed, sink,
                   header_written, writer_open, client_open, total_processed,
                   total_correct, exc, report>>
    /\ UNCHANGED <<flushed, accuracy>>
    /\ UNCHANGED <<envVars, genVars, tunerVars, scoreVars, normVars, scorerVars,
                 optionVars>>

\* the iterator is exhausted: if pending_tasks: await asyncio.wait(ALL_COMPLETED)
SourceExhausted ==
    /\ pc = "iter"
    /\ rows_pulled = Len(source)
    /\ pc' = IF pending_tasks # {} THEN "wait_all" ELSE "finally"
    /\ UNCHANGED <<rows_pulled, task_data, pending_tasks, done, task_state,
                   task_out, completed, sink, header_written, writer_open,
                   client_open, total_processed, total_correct, exc, report>>
    /\ UNCHANGED <<flushed, accuracy>>
    /\ UNCHANGED <<envVars, genVars, tunerVars, scoreVars, normVars, scorerVars,
                 optionVars>>

\* the event loop runs the coroutine of task t to its end
RunTask(t) ==
    /\ pc \in {"wait_first", "wait_all"}
    /\ task_state[t] = "scheduled"
    /\ task_out' = [task_out EXCEPT
                       ![t] = process_single_task(source[t], ClientGenerate(t))]
    /\ task_state' = [task_state EXCEPT ![t] = "finished"]
    /\ completed' = Append(completed, t)
    /\ UNCHANGED <<pc, rows_pulled, task_data, pending_tasks, done, sink,
                   header_written, writer_open, client_open, total_processed,
                   total_correct, exc, report>>
    /\ UNCHANGED <<flushed, accuracy>>
    /\ UNCHANGED <<envVars, genVars, tunerVars, scoreVars, normVars, scorerVars,
                 optionVars>>

\* done, pending_tasks = await asyncio.wait(pending_tasks, FIRST_COMPLETED)
WaitFirstReturns ==
    /\ pc = "wait_first"
    /\ FirstCompleted(pending_tasks)
    /\ done' = DoneOf(pending_tasks)
    /\ pending_tasks' = StillPending(pending_tasks)
    /\ pc' = "harvest_first"
    /\ UNCHANGED <<rows_pulled, task_data, task_state, task_out, completed,
                   sink, header_written, writer_open, client_open,
                   total_processed, total_correct, exc, report>>
    /\ UNCHANGED <<flushed, accuracy>>
    /\ UNCHANGED <<envVars, genVars, tunerVars, scoreVars, normVars, scorerVars,
                 optionVars>>

\* done, _ = await asyncio.wait(pending_tasks, ALL_COMPLETED)
WaitAllReturns ==
    /\ pc = "wait_all"
    /\ AllCompleted(pending_tasks)
    /\ done' = DoneOf(pending_tasks)
    /\ pc' = "harvest_all"
    /\ UNCHANGED <<rows_pulled, task_data, pending_tasks, task_state, task_out,
                   completed, sink, header_written, writer_open, client_open,
                   total_processed, total_correct, exc, report>>
    /\ UNCHANGED <<flushed, accuracy>>
    /\ UNCHANGED <<envVars, genVars, tunerVars, scoreVars, normVars, scorerVars,
                 optionVars>>

\* for finished_task in done: handle_result(await finished_task), for the task
\* t that the iteration over the set `done` yields next
Harvest(t) ==
    /\ pc \in {"harvest_first", "harvest_all"}
    /\ t \in done
    /\ IF task_out[t].raised
          THEN /\ exc' = task_out[t].exc
               /\ pc' = "finally"
               /\ UNCHANGED <<done, sink, flushed, total_processed,
                              total_correct>>
          ELSE /\ sink' = WriteResult(sink, task_out[t].result)
               /\ flushed' = AfterWrite(1 + Len(sink'), flushed)
               /\ total_processed' =
                      ProcessedAfter(total_processed, task_out[t].result)
               /\ total_correct' = CorrectAfter(total_correct, task_out[t].result)
               /\ done' = done \ {t}
               /\ pc' = IF done' = {} THEN AfterHarvest ELSE pc
               /\ UNCHANGED exc
    /\ UNCHANGED <<rows_pulled, task_data, pending_tasks, task_state, task_out,
                   completed, header_written, writer_open, client_open, report>>
    /\ UNCHANGED accuracy
    /\ UNCHANGED <<envVars, genVars, tunerVars, scoreVars, normVars, scorerVars,
                 optionVars>>

\* writer.write_result raises (the sink fails): the exception leaves the loop
SinkFails(t) ==
    /\ pc \in {"harvest_first", "harvest_all"}
    /\ t \in done
    /\ ~task_out[t].raised
    /\ exc' = Exc("OSError")
    /\ pc' = "finally"
    /\ UNCHANGED <<rows_pulled, task_data, pending_tasks, done, task_state,
                   task_out, completed, sink, header_written, writer_open,
                   client_open, total_processed, total_correct, report>>
    /\ UNCHANGED <<flushed, accuracy>>
    /\ UNCHANGED <<envVars, genVars, tunerVars, scoreVars, normVars, scorerVars,
                 optionVars>>

\* coro = self.process_single_task(client, task_data);
\* task = asyncio.create_task(coro); pending_tasks.add(task)
CreateTask ==
    /\ pc = "create"
    /\ task_state' = [task_state EXCEPT ![task_data] = "scheduled"]
    /\ pending_tasks' = pending_tasks \cup {task_data}
    /\ pc' = "iter"
    /\ UNCHANGED <<rows_pulled, task_data, done, task_out, completed, sink,
                   header_written, writer_open, client_open, total_processed,
                   total_correct, exc, report>>
    /\ UNCHANGED <<flushed, accuracy>>
    /\ UNCHANGED <<envVars, genVars, tunerVars, scoreVars, normVars, scorerVars,
                 optionVars>>

\* a finally block that cancels nothing: a faulty variant, to show that C11
\* depends on the cancellation of the tasks still pending
M_Cancelled(t) == task_state[t]

\* a cancel that takes effect whatever the state of the task: a faulty
\* variant, to show that C29 depends on cancel() sparing finished tasks
M_CancelledAnyway(t) == "cancelled"

\* Task.cancel(): a task that has finished stays as it is
Cancelled(t) ==
    IF task_state[t] = "scheduled" THEN "cancelled" ELSE task_state[t]

\* finally: for t in pending_tasks: t.cancel(); then ResultWriter.__exit__
Finally ==
    /\ pc = "finally"
    /\ task_state' = [t \in Tasks |->
                         IF t \in pending_tasks THEN Cancelled(t)
                         ELSE task_state[t]]
    /\ writer_open' = FALSE
    /\ flushed' = AfterClose(1 + Len(sink), flushed)
    /\ pc' = IF exc = NoExc THEN "report" ELSE "aexit"
    /\ UNCHANGED <<rows_pulled, task_data, pending_tasks, done, task_out,
                   completed, sink, header_written, client_open,
                   total_processed, total_correct, exc, report>>
    /\ UNCHANGED accuracy
    /\ UNCHANGED <<envVars, genVars, tunerVars, scoreVars, normVars, scorerVars,
                 optionVars>>

\* a test that lets zero through: a faulty variant, to show that C25 depends
\* on the test
M_HasProcessed(n) == n >= 0

\* if total_processed > 0:
HasProcessed(n) == n > 0

\* (total_correct / total_processed) * 100, as a fraction
Percent(correct, processed) == [num |-> 100 * correct, den |-> processed]

\* the final report: the accuracy, or the warning that no rows were
\* processed; a division by zero raises ZeroDivisionError
Report ==
    /\ pc = "report"
    /\ IF ~HasProcessed(total_processed)
          THEN /\ report' = "no_rows"
               /\ UNCHANGED <<accuracy, exc>>
          ELSE IF total_processed = 0
          THEN /\ exc' = Exc("ZeroDivisionError")
               /\ UNCHANGED <<accuracy, report>>
          ELSE /\ accuracy' = Percent(total_correct, total_processed)
               /\ report' = "accuracy"
               /\ UNCHANGED exc
    /\ pc' = "aexit"
    /\ UNCHANGED <<rows_pulled, task_data, pending_tasks, done, task_state,
                   task_out, completed, sink, header_written, writer_open,
                   client_open, total_processed, total_correct>>
    /\ UNCHANGED flushed
    /\ UNCHANGED <<envVars, genVars, tunerVars, scoreVars, normVars, scorerVars,
                 optionVars>>

\* an __aexit__ that tests self.client, which __init__ left None, and so
\* closes nothing: a faulty variant, to show that C12 depends on the close
M_AClose(session_open) == session_open

\* if self._client: await self._client.aclose()
AClose(session_open) == IF session_open THEN FALSE ELSE session_open

\* OllamaClient.__aexit__, then run() returns or the exception leaves it
AExit ==
    /\ pc = "aexit"
    /\ client_open' = AClose(client_open)
    /\ pc' = IF exc = NoExc THEN "done" ELSE "raised"
    /\ UNCHANGED <<rows_pulled, task_data, pending_tasks, done, task_state,
                   task_out, completed, sink, header_written, writer_open,
                   total_processed, total_correct, exc, report>>
    /\ UNCHANGED <<flushed, accuracy>>
    /\ UNCHANGED <<envVars, genVars, tunerVars, scoreVars, normVars, scorerVars,
                 optionVars>>

Next ==
    \/ Enter
    \/ OpenFails
    \/ SourceFails
    \/ PullRow
    \/ SourceExhausted
    \/ \E t \in Tasks : RunTask(t)
    \/ WaitFirstReturns
    \/ WaitAllReturns
    \/ \E t \in Tasks : Harvest(t)
    \/ \E t \in Tasks : SinkFails(t)
    \/ CreateTask
    \/ Finally
    \/ Report
    \/ AExit

(***************************************************************************)
(* Initial states.                                                         *)
(***************************************************************************)
\* model outputs: "ANSWER: 1", "pick 0", "no"
TextAnswer1 == <<"A", "N", "S", "W", "E", "R", ":", " ", "1">>
TextPick0 == <<"p", "i", "c", "k", " ", "0">>
TextNo == <<"n", "o">>

\* a server that answers every request with 200 and a well-formed answer
ServerOk == [k \in 1..max_retries |-> HttpOk(TextAnswer1)]

\* the task sources of n tasks: task i has id i and any ground truth
Sources(n) ==
    {[i \in 1..n |-> [id |-> i, ground_truth_index |-> gt[i]]] :
        gt \in [1..n -> GroundTruths]}

\* what the generate of a stub client may do
StubOutcomes ==
    {Returned(TextAnswer1, 7), Returned(TextPick0, 9), Returned(TextNo, 3),
     Raised(Exc("TypeError")), Raised(FailedAfter("ConnectError"))}

\* accuracy is not bound
NoAccuracy == [num |-> 0, den |-> 0]

RunInit ==
    /\ pc = "start"
    /\ rows_pulled = 0
    /\ task_data = 0
    /\ pending_tasks = {}
    /\ done = {}
    /\ task_state = [t \in Tasks |-> "new"]
    /\ task_out = [t \in Tasks |-> NotRun]
    /\ completed = <<>>
    /\ sink = <<>>
    /\ header_written = FALSE
    /\ flushed = 0
    /\ writer_open = FALSE
    /\ client_open = FALSE
    /\ total_processed = 0
    /\ total_correct = 0
    /\ exc = NoExc
    /\ report = "none"
    /\ accuracy = NoAccuracy

GenIdle ==
    /\ gen = NewCall
    /\ gen_args = <<>>
    /\ client_attrs = AfterInit

\* no AutoTuner has been made
TunerIdle ==
    /\ all_tasks = <<>>
    /\ sample_size = 0
    /\ sample_tasks = <<>>
    /\ n_trials = 0
    /\ num_ctx = FALSE
    /\ loop_pc = "none"
    /\ opt_pc = "none"
    /\ trial_no = 0
    /\ trials = <<>>
    /\ values = <<>>

ScoreIdle ==
    /\ outcomes = <<>>
    /\ scores = <<>>

\* no file is being read
ScorerIdle ==
    /\ output_text = <<>>
    /\ predicted_index = None

OptionsIdle ==
    /\ default_options = <<>>
    /\ options_override = None
    /\ final_options = None

NormIdle ==
    /\ norm_pc = "none"
    /\ row_num = 0
    /\ row_dict = <<>>
    /\ yielded = <<>>
    /\ n_yielded = 0
    /\ n_skipped = 0

\* run() as the program makes it: the client is an OllamaClient
Init ==
    /\ C \in 1..MaxC
    /\ client = "OllamaClient"
    /\ source \in UNION {Sources(n) : n \in 0..MaxRows}
    /\ stub = [t \in Tasks |-> Pending]
    /\ server = ServerOk
    /\ RunInit
    /\ GenIdle
    /\ TunerIdle
    /\ ScoreIdle
    /\ NormIdle
    /\ ScorerIdle
    /\ OptionsIdle

Spec == Init /\ [][Next]_vars

\* run() when nothing outside the tasks fails: the sink accepts every row, the
\* source can be read to its end and the output file can be opened
InitLive ==
    /\ C \in 1..MaxC
    /\ client = "OllamaClient"
    /\ source \in UNION {Sources(n) : n \in 0..MaxLiveRows}
    /\ stub = [t \in Tasks |-> Pending]
    /\ server = ServerOk
    /\ RunInit
    /\ GenIdle
    /\ TunerIdle
    /\ ScoreIdle
    /\ NormIdle
    /\ ScorerIdle
    /\ OptionsIdle

NextLive ==
    \/ Enter
    \/ PullRow
    \/ SourceExhausted
    \/ \E t \in Tasks : RunTask(t)
    \/ WaitFirstReturns
    \/ WaitAllReturns
    \/ \E t \in Tasks : Harvest(t)
    \/ CreateTask
    \/ Finally
    \/ Report
    \/ AExit

\* the event loop runs whatever is ready: run() itself when it is not
\* suspended in a wait, a scheduled task otherwise, and every generation call
\* comes to an end
SpecLive == InitLive /\ [][NextLive]_vars /\ WF_vars(NextLive)

\* run() around a stub client whose generate takes the prompt alone
InitStub ==
    /\ C \in 1..MaxC
    /\ client = "StubClient"
    /\ source \in UNION {Sources(n) : n \in 0..MaxStubRows}
    /\ stub \in [Tasks -> StubOutcomes]
    /\ server = ServerOk
    /\ RunInit
    /\ GenIdle
    /\ TunerIdle
    /\ ScoreIdle
    /\ NormIdle
    /\ ScorerIdle
    /\ OptionsIdle

SpecStub == InitStub /\ [][Next]_vars

(***************************************************************************)
(* One call of OllamaClient.generate, step by step, made with the arguments *)
(* of one of the two call sites against a server that answers the k-th      *)
(* attempt with server[k].                                                  *)
(***************************************************************************)
\* what the server may do with one request
Replies ==
    {HttpOk(TextAnswer1), HttpOk(TextPick0), HttpStatus(500), HttpStatus(404),
     HttpRaises("ReadTimeout"), HttpRaises("ConnectError"),
     HttpRaises("ConnectTimeout")}

CallSites == {PipelineCallArgs, TunerCallArgs}

InitGen ==
    /\ C = 1
    /\ client = "OllamaClient"
    /\ source = <<>>
    /\ stub = <<>>
    /\ server \in [1..max_retries -> Replies]
    /\ RunInit
    /\ gen = NewCall
    /\ gen_args \in CallSites
    /\ client_attrs = AfterInit
    /\ TunerIdle
    /\ ScoreIdle
    /\ NormIdle
    /\ ScorerIdle
    /\ OptionsIdle

\* `async with client:` is entered before the call is made
GenEnterSession ==
    /\ gen.pc = "entry"
    /\ "_client" \notin DOMAIN client_attrs
    /\ client_attrs' = aenter(client_attrs)
    /\ UNCHANGED <<envVars, runVars, gen, gen_args, tunerVars, scoreVars,
                   normVars, scorerVars, optionVars>>

\* the call is made: the arguments are bound and the code before the loop runs
GenCall ==
    /\ gen.pc = "entry"
    /\ gen' = GenStep(gen, gen_args, server, client_attrs)
    /\ UNCHANGED <<envVars, runVars, gen_args, client_attrs, tunerVars,
                   scoreVars,
                   normVars, scorerVars,
                 optionVars>>

\* one pass of the retry loop
GenAttempt ==
    /\ gen.pc = "post"
    /\ gen' = GenStep(gen, gen_args, server, client_attrs)
    /\ UNCHANGED <<envVars, runVars, gen_args, client_attrs, tunerVars,
                   scoreVars,
                   normVars, scorerVars,
                 optionVars>>

\* the delay between two attempts ends
GenWake ==
    /\ gen.pc = "sleep"
    /\ gen' = GenStep(gen, gen_args, server, client_attrs)
    /\ UNCHANGED <<envVars, runVars, gen_args, client_attrs, tunerVars,
                   scoreVars,
                   normVars, scorerVars,
                 optionVars>>

NextGen ==
    \/ GenEnterSession
    \/ GenCall
    \/ GenAttempt
    \/ GenWake

SpecGen == InitGen /\ [][NextGen]_vars

(***************************************************************************)
(* AutoTuner: one trial.  _process_single_task and the reduction of a      *)
(* trial's results to a score.  The code computes the score in floating    *)
(* point; the model computes it exactly, as a fraction in thousandths of a *)
(* point: score * 1000 = (1000000 * correct_count - sum(latencies)) / n.   *)
(***************************************************************************)
MaxSample == 2
MaxTasks == 2
MaxTrials == 2

\* {"is_correct": ..., "latency": ...}
TaskResult(correct, latency) == [is_correct |-> correct, latency |-> latency]

NoTaskResult == TaskResult(FALSE, -1)

\* return {"is_correct": False, "latency": 10000.0}
PenaltyLatency == 10000

\* an except clause that names the connection error alone: a faulty variant,
\* to show that C15 depends on `except Exception`
M_CaughtByTrialTask(e) == e.cls = "LLMConnectionError"

\* `except Exception` of AutoTuner._process_single_task
CaughtByTrialTask(e) == e.cls \in ExceptionClasses

\* what the body of `async with semaphore` returns for what generate did
TrialTaskResult(task, outcome) ==
    IF outcome.kind = "response"
    THEN TaskResult(evaluate(parse_index(outcome.raw_content),
                             task.ground_truth_index),
                    outcome.client_latency_ms)
    ELSE TaskResult(FALSE, PenaltyLatency)

\* sum(1 for r in results if r["is_correct"])
CorrectCount(results) ==
    Cardinality({i \in 1..Len(results) : results[i].is_correct})

RECURSIVE SumLatency(_)
\* the sum that mean(latencies) divides by the number of results
SumLatency(results) ==
    IF results = <<>> THEN 0
    ELSE results[1].latency + SumLatency(Tail(results))

\* a score that adds the latency term: a faulty variant, to show that C18
\* depends on the sign of the latency term
M_Score(results) ==
    [num |-> 1000000 * CorrectCount(results) + SumLatency(results),
     den |-> Len(results)]

\* a score whose accuracy term has the weight 1: a faulty variant, to show
\* that C19 depends on the weight of the accuracy term
M_WeighedScore(results) ==
    [num |-> 1000 * CorrectCount(results) - SumLatency(results),
     den |-> Len(results)]

\* score = (accuracy * 1000) - (avg_latency / 1000), for a non-empty list
Score(results) ==
    [num |-> 1000000 * CorrectCount(results) - SumLatency(results),
     den |-> Len(results)]

\* x > y for two scores
Higher(x, y) == x.num * y.den > y.num * x.den

NoScore == [num |-> 0, den |-> 0]

(***************************************************************************)
(* AutoTuner: _evaluate_trial_async on the event loop.  Each call of it    *)
(* has a semaphore, a client session and one coroutine per sample task of  *)
(* its own; trials[k] is the call made for trial k.                        *)
(***************************************************************************)
SampleIndexes == 1..Len(sample_tasks)

NoCall == [st |-> "created", out |-> Pending, result |-> NoTaskResult]

NoTrial ==
    [st |-> "none", permits |-> 0, session_open |-> FALSE, calls |-> <<>>,
     score |-> NoScore, exc |-> NoExc]

\* the coroutines of trial k that are inside `async with semaphore`
Running(k) == {i \in 1..Len(trials[k].calls) : trials[k].calls[i].st = "running"}

\* the trials whose coroutine is on the event loop and has not ended
ActiveTrials ==
    {k \in 1..n_trials : trials[k].st \in {"submitted", "gathering"}}

\* servers for the calls of a trial, attempt k being answered with script[k]:
\* every attempt answered; every attempt a ReadTimeout; a ConnectTimeout on
\* the first attempt; status 500 on the first attempt
TunerScripts ==
    {ServerOk,
     [k \in 1..max_retries |-> HttpRaises("ReadTimeout")],
     [k \in 1..max_retries |->
         IF k = 1 THEN HttpRaises("ConnectTimeout") ELSE HttpOk(TextAnswer1)],
     [k \in 1..max_retries |->
         IF k = 1 THEN HttpStatus(500) ELSE HttpOk(TextAnswer1)]}

\* a semaphore that lets every coroutine in: a faulty variant, to show that
\* C16 depends on the acquire
M_CanAcquire(permits) == TRUE

\* asyncio.Semaphore.acquire does not have to wait
CanAcquire(permits) == permits > 0

\* semaphore = asyncio.Semaphore(self.concurrency_limit);
\* async with OllamaClient() as client: one coroutine per sample task; gather
TrialStart(k) ==
    /\ trials[k].st = "submitted"
    /\ trials' = [trials EXCEPT
                     ![k] = [st |-> "gathering", permits |-> C,
                             session_open |-> TRUE,
                             calls |-> [i \in SampleIndexes |-> NoCall],
                             score |-> NoScore, exc |-> NoExc]]
    /\ UNCHANGED <<all_tasks, sample_size>>
    /\ UNCHANGED <<sample_tasks, n_trials, num_ctx, loop_pc, opt_pc, trial_no,
                   values>>
    /\ UNCHANGED <<envVars, runVars, genVars, scoreVars, normVars, scorerVars,
                 optionVars>>

\* async with semaphore: the coroutine of sample task i gets a permit and
\* calls client.generate
Acquire(k, i) ==
    /\ trials[k].st = "gathering"
    /\ trials[k].calls[i].st = "created"
    /\ CanAcquire(trials[k].permits)
    /\ trials' = [trials EXCEPT ![k].permits = @ - 1,
                                ![k].calls[i].st = "running"]
    /\ UNCHANGED <<all_tasks, sample_size>>
    /\ UNCHANGED <<sample_tasks, n_trials, num_ctx, loop_pc, opt_pc, trial_no,
                   values>>
    /\ UNCHANGED <<envVars, runVars, genVars, scoreVars, normVars, scorerVars,
                 optionVars>>

\* the generate call of sample task i ends, against any of the servers; the
\* coroutine returns its result and gives the permit back, or the exception
\* leaves it and gather passes it on to _evaluate_trial_async
TaskEnd(k, i) ==
    /\ trials[k].st = "gathering"
    /\ trials[k].calls[i].st = "running"
    /\ \E script \in TunerScripts :
          LET out == GenRun(NewCall, TunerCallArgs, script, aenter(AfterInit)).out
          IN  IF out.kind = "response" \/ CaughtByTrialTask(out.exc)
              THEN trials' =
                       [trials EXCEPT
                           ![k].permits = @ + 1,
                           ![k].calls[i] =
                               [st |-> "ended", out |-> out,
                                result |-> TrialTaskResult(sample_tasks[i], out)]]
              ELSE trials' =
                       [trials EXCEPT
                           ![k].st = "raised",
                           ![k].session_open = AClose(@),
                           ![k].permits = @ + 1,
                           ![k].calls[i] = [st |-> "ended", out |-> out,
                                            result |-> NoTaskResult],
                           ![k].exc = out.exc]
    /\ UNCHANGED <<all_tasks, sample_size>>
    /\ UNCHANGED <<sample_tasks, n_trials, num_ctx, loop_pc, opt_pc, trial_no,
                   values>>
    /\ UNCHANGED <<envVars, runVars, genVars, scoreVars, normVars, scorerVars,
                 optionVars>>

\* gather has every result: the session is closed and the results are
\* reduced; correct_count / len(self.sample_tasks) divides by zero for an
\* empty sample
TrialReduce(k) ==
    /\ trials[k].st = "gathering"
    /\ \A i \in SampleIndexes : trials[k].calls[i].st = "ended"
    /\ LET results == [i \in SampleIndexes |-> trials[k].calls[i].result]
       IN  trials' =
               [trials EXCEPT
                   ![k] = IF Len(sample_tasks) = 0
                          THEN [NoTrial EXCEPT !.st = "raised",
                                               !.exc = Exc("ZeroDivisionError")]
                          ELSE [NoTrial EXCEPT !.st = "scored",
                                               !.score = Score(results)]]
    /\ UNCHANGED <<all_tasks, sample_size>>
    /\ UNCHANGED <<sample_tasks, n_trials, num_ctx, loop_pc, opt_pc, trial_no,
                   values>>
    /\ UNCHANGED <<envVars, runVars, genVars, scoreVars, normVars, scorerVars,
                 optionVars>>

(***************************************************************************)
(* AutoTuner.optimize: the study runs on a worker thread of the executor   *)
(* and calls objective_wrapper once per trial; optimize() is suspended in  *)
(* `await loop.run_in_executor`, so the event loop is free for the trials. *)
(* Study.optimize is called without `catch`: an exception that leaves the  *)
(* objective marks the trial failed and leaves Study.optimize.             *)
(***************************************************************************)
NoValue == [state |-> "none", score |-> NoScore]

Complete(score) == [state |-> "complete", score |-> score]

Failed == [state |-> "fail", score |-> NoScore]

\* a future whose result() returns at once: a faulty variant, to show that
\* C17 depends on the blocking call
M_ResultReady(k) == TRUE

\* future.result() returns or raises: the coroutine of trial k has ended
ResultReady(k) == trials[k].st \in {"scored", "raised"}

\* study = await loop.run_in_executor(None, run_study): the study starts
OptimizeStart ==
    /\ loop_pc = "start"
    /\ loop_pc' = "await_executor"
    /\ opt_pc' = "study"
    /\ UNCHANGED <<all_tasks, sample_size>>
    /\ UNCHANGED <<sample_tasks, n_trials, num_ctx, trial_no, trials, values>>
    /\ UNCHANGED <<envVars, runVars, genVars, scoreVars, normVars, scorerVars,
                 optionVars>>

\* the study calls objective_wrapper for the next trial: params is built
\* (settings.OLLAMA_NUM_CTX raises AttributeError where the settings do not
\* define it), the coroutine is handed to the loop and the thread blocks
ObjectiveCall ==
    /\ opt_pc = "study"
    /\ trial_no < n_trials
    /\ trial_no' = trial_no + 1
    /\ IF num_ctx
       THEN /\ trials' = [trials EXCEPT ![trial_no + 1].st = "submitted"]
            /\ opt_pc' = "blocked"
            /\ UNCHANGED values
       ELSE /\ values' = [values EXCEPT ![trial_no + 1] = Failed]
            /\ opt_pc' = "raised"
            /\ UNCHANGED trials
    /\ UNCHANGED <<all_tasks, sample_size>>
    /\ UNCHANGED <<sample_tasks, n_trials, num_ctx, loop_pc>>
    /\ UNCHANGED <<envVars, runVars, genVars, scoreVars, normVars, scorerVars,
                 optionVars>>

\* return future.result(): the score goes to the study, or the exception of
\* the coroutine is raised in the worker thread and leaves Study.optimize
FutureResult ==
    /\ opt_pc = "blocked"
    /\ ResultReady(trial_no)
    /\ CASE trials[trial_no].st = "scored" ->
               /\ values' = [values EXCEPT
                                ![trial_no] = Complete(trials[trial_no].score)]
               /\ opt_pc' = "study"
         [] trials[trial_no].st = "raised" ->
               /\ values' = [values EXCEPT ![trial_no] = Failed]
               /\ opt_pc' = "raised"
         [] OTHER ->
               /\ values' = [values EXCEPT ![trial_no] = Complete(NoScore)]
               /\ opt_pc' = "study"
    /\ UNCHANGED <<all_tasks, sample_size>>
    /\ UNCHANGED <<sample_tasks, n_trials, num_ctx, loop_pc, trial_no, trials>>
    /\ UNCHANGED <<envVars, runVars, genVars, scoreVars, normVars, scorerVars,
                 optionVars>>

\* n_trials trials have been made: Study.optimize returns
StudyEnds ==
    /\ opt_pc = "study"
    /\ trial_no = n_trials
    /\ opt_pc' = "done"
    /\ UNCHANGED <<all_tasks, sample_size>>
    /\ UNCHANGED <<sample_tasks, n_trials, num_ctx, loop_pc, trial_no, trials,
                   values>>
    /\ UNCHANGED <<envVars, runVars, genVars, scoreVars, normVars, scorerVars,
                 optionVars>>

\* run_in_executor hands the study, or the exception that left run_study,
\* back to optimize()
ExecutorReturns ==
    /\ loop_pc = "await_executor"
    /\ opt_pc \in {"done", "raised"}
    /\ loop_pc' = IF opt_pc = "done" THEN "returned" ELSE "raised"
    /\ UNCHANGED <<all_tasks, sample_size>>
    /\ UNCHANGED <<sample_tasks, n_trials, num_ctx, opt_pc, trial_no, trials,
                   values>>
    /\ UNCHANGED <<envVars, runVars, genVars, scoreVars, normVars, scorerVars,
                 optionVars>>

\* random.sample(population, k): k elements at different positions of the
\* list, in any order
RandomSample(population, k) ==
    {[i \in 1..k |-> population[f[i]]] :
        f \in {g \in [1..k -> 1..Len(population)] :
                  \A i, j \in 1..k : g[i] = g[j] => i = j}}

\* a constructor that keeps every task: a faulty variant, to show that C30
\* depends on the sample being drawn
M_SampleTasks(all, size) == {all}

\* random.sample(all_tasks, sample_size) if len(all_tasks) > sample_size
\* else all_tasks: the lists self.sample_tasks may be
SampleTasks(all, size) ==
    IF Len(all) > size THEN RandomSample(all, size) ELSE {all}

InitTuner ==
    /\ C \in 1..MaxC
    /\ client = "OllamaClient"
    /\ source = <<>>
    /\ stub = <<>>
    /\ server = ServerOk
    /\ RunInit
    /\ GenIdle
    /\ ScoreIdle
    /\ NormIdle
    /\ ScorerIdle
    /\ all_tasks \in UNION {Sources(n) : n \in 0..MaxTasks}
    /\ sample_size \in 0..MaxSample
    /\ sample_tasks \in SampleTasks(all_tasks, sample_size)
    /\ n_trials \in 1..MaxTrials
    /\ num_ctx \in BOOLEAN
    /\ loop_pc = "start"
    /\ opt_pc = "idle"
    /\ trial_no = 0
    /\ trials = [k \in 1..n_trials |-> NoTrial]
    /\ values = [k \in 1..n_trials |-> NoValue]
    /\ OptionsIdle

NextTuner ==
    \/ OptimizeStart
    \/ ObjectiveCall
    \/ FutureResult
    \/ StudyEnds
    \/ ExecutorReturns
    \/ \E k \in 1..n_trials : TrialStart(k)
    \/ \E k \in 1..n_trials : \E i \in SampleIndexes : Acquire(k, i)
    \/ \E k \in 1..n_trials : \E i \in SampleIndexes : TaskEnd(k, i)
    \/ \E k \in 1..n_trials : TrialReduce(k)

SpecTuner == InitTuner /\ [][NextTuner]_vars

(***************************************************************************)
(* The reduction of a trial alone: two result lists over one sample, as    *)
(* two trials of a study produce them, and their scores.                   *)
(***************************************************************************)
\* HTTP_TIMEOUT_SECONDS: float = 600.0, the timeout of the client session
HTTP_TIMEOUT_SECONDS == 600

\* the latencies of a result: a quick answer, the latency of the except
\* branch, an answer that arrives just inside the timeout
Latencies == {7, PenaltyLatency, HTTP_TIMEOUT_SECONDS * 1000 - 1}

TaskResults == {TaskResult(c, l) : c \in BOOLEAN, l \in Latencies}

\* accuracy = correct_count / len(self.sample_tasks), compared
HigherAccuracy(a, b) == CorrectCount(a) * Len(b) > CorrectCount(b) * Len(a)

SameAccuracy(a, b) == CorrectCount(a) * Len(b) = CorrectCount(b) * Len(a)

\* avg_latency = mean(latencies), compared
LowerMeanLatency(a, b) == SumLatency(a) * Len(b) < SumLatency(b) * Len(a)

InitScore ==
    /\ C = 1
    /\ client = "OllamaClient"
    /\ source = <<>>
    /\ stub = <<>>
    /\ server = ServerOk
    /\ RunInit
    /\ GenIdle
    /\ TunerIdle
    /\ NormIdle
    /\ ScorerIdle
    /\ outcomes \in UNION {[1..2 -> [1..n -> TaskResults]] : n \in 1..MaxSample}
    /\ scores = <<>>
    /\ OptionsIdle

\* both result lists are reduced
Reduce ==
    /\ scores = <<>>
    /\ scores' = <<Score(outcomes[1]), Score(outcomes[2])>>
    /\ UNCHANGED outcomes
    /\ UNCHANGED <<envVars, runVars, genVars, tunerVars, normVars, scorerVars,
                 optionVars>>

NextScore == Reduce

SpecScore == InitScore /\ [][NextScore]_vars

(***************************************************************************)
(* CSVReader.stream_input: the recovery of the option list.  Texts are     *)
(* sequences of characters.  LiteralEval covers the literals made of       *)
(* string literals without escapes (side by side they are concatenated, as *)
(* in Python), decimal integers, commas, blanks and one pair of brackets;  *)
(* every other text is taken as one that ast.literal_eval rejects.         *)
(***************************************************************************)
Quotes == {"'", "\""}

RECURSIVE LStrip(_)
LStrip(s) == IF s # <<>> /\ IsSpace(Head(s)) THEN LStrip(Tail(s)) ELSE s

RECURSIVE RStrip(_)
RStrip(s) ==
    IF s # <<>> /\ IsSpace(s[Len(s)])
    THEN RStrip(SubSeq(s, 1, Len(s) - 1))
    ELSE s

\* str.strip()
Strip(s) == RStrip(LStrip(s))

RECURSIVE Find(_, _, _)
\* the first position at or after i that holds a character of cs, 0 if none
Find(s, cs, i) ==
    IF i > Len(s) THEN 0
    ELSE IF s[i] \in cs THEN i
    ELSE Find(s, cs, i + 1)

\* `c in s`
Contains(s, c) == Find(s, {c}, 1) # 0

\* an element of a recovered list: a str, or an int written with these digits
StrItem(text) == [str |-> TRUE, text |-> text]
IntItem(text) == [str |-> FALSE, text |-> text]

RECURSIVE FindAll(_, _)
\* re.findall(r"['\"](.*?)['\"]", s, re.DOTALL) from position i: a quote, the
\* shortest text up to the next quote of either kind, and on after that quote
FindAll(s, i) ==
    LET a == Find(s, Quotes, i)
        b == IF a = 0 THEN 0 ELSE Find(s, Quotes, a + 1)
    IN  IF b = 0 THEN <<>>
        ELSE <<StrItem(SubSeq(s, a + 1, b - 1))>> \o FindAll(s, b + 1)

regex_matches(options_str) == FindAll(options_str, 1)

NoAtom == [end |-> 0, item |-> StrItem(<<>>)]

\* the string literal that opens at p: the position of its closing quote, 0
\* if the line ends first or the literal opens with three quotes
StringEnd(s, p) ==
    LET j == Find(s, {s[p], "\n"}, p + 1)
    IN  IF j = 0 \/ s[j] # s[p] THEN 0
        ELSE IF j = p + 1 /\ j < Len(s) /\ s[j + 1] = s[p] THEN 0
        ELSE j

RECURSIVE Atom(_, _)
\* the string literal from p to its closing quote at j, joined to the operand
\* `more` made of the literals that follow it
JoinAtom(s, p, j, more) ==
    IF more.end = 0 THEN NoAtom
    ELSE [end |-> more.end,
          item |-> StrItem(SubSeq(s, p + 1, j - 1) \o more.item.text)]

\* the string literal from p to its closing quote at j (0: there is none),
\* with q the position of what follows it
StringAtom(s, p, j, q) ==
    IF j = 0 THEN NoAtom
    ELSE IF q <= Len(s) /\ s[q] \in Quotes
    THEN JoinAtom(s, p, j, Atom(s, q))
    ELSE [end |-> j + 1, item |-> StrItem(SubSeq(s, p + 1, j - 1))]

\* the digits from p to e: an integer, unless it is written with a leading zero
IntAtom(s, p, e) ==
    IF s[p] = "0" /\ \E k \in p..e : s[k] # "0" THEN NoAtom
    ELSE [end |-> e + 1, item |-> IntItem(SubSeq(s, p, e))]

\* the operand that starts at p: string literals side by side, or an integer;
\* end is the position after it, 0 if there is no operand
Atom(s, p) ==
    IF p > Len(s) THEN NoAtom
    ELSE IF s[p] \in Quotes
    THEN StringAtom(s, p, StringEnd(s, p), SkipSpace(s, StringEnd(s, p) + 1))
    ELSE IF s[p] \in Digits THEN IntAtom(s, p, DigitsEnd(s, p))
    ELSE NoAtom

NoElements == [ok |-> FALSE, end |-> 0, items |-> <<>>]

RECURSIVE Elements(_, _)
\* the operand a before the operands `rest`
Prepend(a, rest) ==
    IF rest.ok
    THEN [ok |-> TRUE, end |-> rest.end, items |-> <<a.item>> \o rest.items]
    ELSE NoElements

\* the operand a and what follows it at r: a comma and more operands, or the
\* end of the operands
AfterAtom(s, a, r) ==
    IF r <= Len(s) /\ s[r] = "," THEN Prepend(a, Elements(s, r + 1))
    ELSE IF r > Len(s) \/ s[r] = "]"
    THEN [ok |-> TRUE, end |-> r, items |-> <<a.item>>]
    ELSE NoElements

\* the operands of which the first one is a
FromAtom(s, a) ==
    IF a.end = 0 THEN NoElements ELSE AfterAtom(s, a, SkipSpace(s, a.end))

\* operands separated by commas from position p, up to the end of the text or
\* a closing bracket (at position end); a comma may follow the last operand
Elements(s, p) ==
    IF SkipSpace(s, p) > Len(s) \/ s[SkipSpace(s, p)] = "]"
    THEN [ok |-> TRUE, end |-> SkipSpace(s, p), items |-> <<>>]
    ELSE FromAtom(s, Atom(s, SkipSpace(s, p)))

\* a text that opens with a bracket, e its operands: a list if the bracket
\* closes and nothing follows
ListLiteral(s, e) ==
    IF e.ok /\ e.end <= Len(s) /\ SkipSpace(s, e.end + 1) > Len(s)
    THEN [kind |-> "list", items |-> e.items]
    ELSE [kind |-> "error", items |-> <<>>]

\* a text without a bracket, e its operands: a str, an int or a tuple if the
\* operands run to the end of the text
OtherLiteral(s, e) ==
    IF e.ok /\ e.end > Len(s) /\ e.items # <<>>
    THEN [kind |-> "other", items |-> <<>>]
    ELSE [kind |-> "error", items |-> <<>>]

\* ast.literal_eval(s): a list with its elements, another value (a str, an
\* int, a tuple), or ValueError / SyntaxError
LiteralEval(s) ==
    IF s = <<>> THEN [kind |-> "error", items |-> <<>>]
    ELSE IF s[1] = "[" THEN ListLiteral(s, Elements(s, 2))
    ELSE OtherLiteral(s, Elements(s, 1))

(***************************************************************************)
(* CSVReader.stream_input: one row.  A column of a row holds a text or is  *)
(* None; an item of the option list is a str or, out of a literal, an int. *)
(***************************************************************************)
RECURSIVE SplitComma(_)
\* [opt.strip() for opt in options_str.split(",")]
SplitComma(s) ==
    LET c == Find(s, {","}, 1)
    IN  IF c = 0 THEN <<StrItem(Strip(s))>>
        ELSE <<StrItem(Strip(SubSeq(s, 1, c - 1)))>>
                 \o SplitComma(SubSeq(s, c + 1, Len(s)))

\* the try statement around ast.literal_eval, given what literal_eval and
\* re.findall made of the text
TryLiteral(ast_parsed, matches) ==
    CASE ast_parsed.kind = "list" ->
             IF Len(ast_parsed.items) = 1 /\ Len(matches) > 1
             THEN matches ELSE ast_parsed.items
      [] ast_parsed.kind = "error" -> matches
      [] OTHER -> <<>>

\* options_list after the try statement around ast.literal_eval
Recovered(options_str) ==
    TryLiteral(LiteralEval(options_str), regex_matches(options_str))

\* `if not options_list:` with the list the try statement left
Fallback(options_str, first) ==
    IF first # <<>> THEN [raised |-> FALSE, list |-> first]
    ELSE IF Contains(options_str, ",") /\ ~Contains(options_str, "[")
    THEN [raised |-> FALSE, list |-> SplitComma(options_str)]
    ELSE [raised |-> TRUE, list |-> <<>>]

\* options_list before the ground truth is looked at, or the
\* DataValidationError for a text no list can be recovered from
OptionsList(options_str) == Fallback(options_str, Recovered(options_str))

\* the truth value of a column: neither None nor the empty text
Truthy(col) == col # None /\ col[1] # <<>>

\* row_dict.get("ground_truth") or row_dict.get("ground_truth_index") or
\* row_dict.get("answer")
gt_raw(row) ==
    IF Truthy(row.ground_truth) THEN row.ground_truth
    ELSE IF Truthy(row.ground_truth_index) THEN row.ground_truth_index
    ELSE row.answer

\* clean_gt.split(".")[0]
BeforeDot(s) ==
    LET d == Find(s, {"."}, 1)
    IN  IF d = 0 THEN s ELSE SubSeq(s, 1, d - 1)

\* str.isdigit()
IsDigit(s) == s # <<>> /\ \A k \in 1..Len(s) : s[k] \in Digits

\* the positions of the list that hold the str text
Matches(options_list, text) ==
    {i \in 1..Len(options_list) :
        options_list[i].str /\ options_list[i].text = text}

\* a range test that lets len(options_list) through: a faulty variant, to
\* show that C20 depends on the upper bound of the test
M_InRange(idx, n) == 0 <= idx /\ idx <= n

\* 0 <= idx < len(options_list)
InRange(idx, n) == 0 <= idx /\ idx < n

\* a resolution that reads the value as an index first and looks for it among
\* the options only when it is no index in range: a faulty variant, to show
\* that C31 depends on the order of the two branches
M_GroundTruthIndex(ground_truth, options_list) ==
    IF ~Truthy(ground_truth) THEN None
    ELSE IF IsDigit(BeforeDot(Strip(ground_truth[1])))
            /\ InRange(ToInt(BeforeDot(Strip(ground_truth[1])), 1,
                             Len(BeforeDot(Strip(ground_truth[1])))),
                       Len(options_list))
    THEN Some(ToInt(BeforeDot(Strip(ground_truth[1])), 1,
                    Len(BeforeDot(Strip(ground_truth[1])))))
    ELSE IF Matches(options_list, BeforeDot(Strip(ground_truth[1]))) # {}
    THEN Some(Min(Matches(options_list, BeforeDot(Strip(ground_truth[1])))) - 1)
    ELSE None

\* gt_index
GroundTruthIndex(ground_truth, options_list) ==
    IF ~Truthy(ground_truth) THEN None
    ELSE LET clean_gt == BeforeDot(Strip(ground_truth[1]))
             idx == ToInt(clean_gt, 1, Len(clean_gt))
         IN  IF Matches(options_list, clean_gt) # {}
             THEN Some(Min(Matches(options_list, clean_gt)) - 1)
             ELSE IF IsDigit(clean_gt) /\ InRange(idx, Len(options_list))
             THEN Some(idx)
             ELSE None

Skipped(cls) ==
    [emitted |-> FALSE, options |-> <<>>, ground_truth_index |-> None,
     error |-> cls]

\* EvaluationTask(options=options_list, ground_truth_index=gt_index)
Emitted(options_list, gt_index) ==
    [emitted |-> TRUE,
     options |-> [i \in 1..Len(options_list) |-> options_list[i].text],
     ground_truth_index |-> gt_index,
     error |-> ""]

\* an except clause that names the domain error alone: a faulty variant, to
\* show that C21 depends on the clause
M_CaughtByRow(cls) == cls = "DataValidationError"

\* `except Exception as e:` of the loop body
CaughtByRow(cls) == cls \in ExceptionClasses

\* the body of the for loop for one row: the task it yields, or the exception
\* it raises
NormalizeRow(row) ==
    IF row.options = None THEN Skipped("ValidationError")
    ELSE LET options_str == Strip(row.options[1])
             parsed == OptionsList(options_str)
             gt_index == GroundTruthIndex(gt_raw(row), parsed.list)
         IN  IF parsed.raised THEN Skipped("DataValidationError")
             ELSE IF \E i \in 1..Len(parsed.list) : ~parsed.list[i].str
             THEN Skipped("ValidationError")
             ELSE Emitted(parsed.list, gt_index)

(***************************************************************************)
(* CSVReader.stream_input: the rows of a file, one after the other.        *)
(***************************************************************************)
MaxNormRows == 2

\* a list literal of two options
OptsList == <<"[", "'", "A", "'", ",", " ", "'", "B", "'", "]">>

\* texts of the options column
OptionTexts ==
    {OptsList,
     \* an array printed without commas: one literal, two quoted texts
     <<"[", "'", "A", "'", " ", "'", "B", "'", "]">>,
     \* a list literal of one option
     <<"[", "'", "A", "'", "]">>,
     \* options that read like indexes
     <<"[", "'", "1", "'", ",", " ", "'", "0", "'", "]">>,
     \* names separated by a comma
     <<"A", ",", " ", "B">>,
     \* a tuple literal
     <<"'", "A", "'", ",", " ", "'", "B", "'">>,
     \* brackets around names: no literal, no quotes
     <<"[", "A", ",", " ", "B", "]">>,
     \* a single word
     <<"A">>,
     \* the empty list
     <<"[", "]">>,
     \* a list of integers
     <<"[", "1", ",", " ", "2", "]">>,
     \* a blank column
     <<" ">>}

GtA == <<"A">>
GtB == <<"B">>
Gt1 == <<"1">>
Gt2 == <<"2">>

\* texts of the ground truth columns: option texts, indexes in and out of
\* range, 5, 1.0, a padded 0, -1, an option text in the other case
GroundTruthTexts ==
    {GtA, GtB, Gt1, Gt2, <<"5">>, <<"1", ".", "0">>, <<" ", "0", " ">>,
     <<"-", "1">>, <<"a">>}

\* the columns ground_truth, ground_truth_index and answer of a row
GroundTruthColumns ==
    {[ground_truth |-> g, ground_truth_index |-> None, answer |-> None] :
        g \in {None, Some(<<>>)} \cup {Some(t) : t \in GroundTruthTexts}}
    \cup {[ground_truth |-> None, ground_truth_index |-> Some(Gt1),
           answer |-> Some(GtA)],
          [ground_truth |-> Some(<<>>), ground_truth_index |-> None,
           answer |-> Some(GtB)]}

RowOf(options, gt) ==
    [options |-> options, ground_truth |-> gt.ground_truth,
     ground_truth_index |-> gt.ground_truth_index, answer |-> gt.answer]

\* the rows csv.DictReader may hand over; a short row has None for options
Rows ==
    {RowOf(o, gt) : o \in {None} \cup {Some(t) : t \in OptionTexts},
                    gt \in GroundTruthColumns}

NoRow == RowOf(None, [ground_truth |-> None, ground_truth_index |-> None,
                      answer |-> None])

InitNorm ==
    /\ C = 1
    /\ client = "OllamaClient"
    /\ source = <<>>
    /\ stub = <<>>
    /\ server = ServerOk
    /\ RunInit
    /\ GenIdle
    /\ TunerIdle
    /\ ScoreIdle
    /\ ScorerIdle
    /\ norm_pc = "rows"
    /\ row_num = 0
    /\ row_dict = NoRow
    /\ yielded = Skipped("")
    /\ n_yielded = 0
    /\ n_skipped = 0
    /\ OptionsIdle

\* for row_num, row_dict in enumerate(reader, start=1): the body for one row
ReadRow ==
    /\ norm_pc = "rows"
    /\ row_num < MaxNormRows
    /\ \E r \in Rows :
          /\ row_dict' = r
          /\ yielded' = NormalizeRow(r)
          /\ n_yielded' = IF NormalizeRow(r).emitted THEN n_yielded + 1
                          ELSE n_yielded
          /\ n_skipped' = IF NormalizeRow(r).emitted THEN n_skipped
                          ELSE IF CaughtByRow(NormalizeRow(r).error)
                          THEN n_skipped + 1
                          ELSE n_skipped
          /\ norm_pc' = IF NormalizeRow(r).emitted
                            \/ CaughtByRow(NormalizeRow(r).error)
                         THEN "rows"
                         ELSE "raised"
    /\ row_num' = row_num + 1
    /\ UNCHANGED <<envVars, runVars, genVars, tunerVars, scoreVars, scorerVars,
                 optionVars>>

\* the reader has no more rows
EndOfFile ==
    /\ norm_pc = "rows"
    /\ norm_pc' = "eof"
    /\ UNCHANGED <<row_num, row_dict, yielded, n_yielded, n_skipped>>
    /\ UNCHANGED <<envVars, runVars, genVars, tunerVars, scoreVars, scorerVars,
                 optionVars>>

NextNorm ==
    \/ ReadRow
    \/ EndOfFile

SpecNorm == InitNorm /\ [][NextNorm]_vars

(***************************************************************************)
(* Properties.                                                             *)
(***************************************************************************)
(* ResponseScorer.parse_index applied to one model output.  Outputs are    *)
(* made of a few pieces: the marker in two spellings, a colon, a blank,    *)
(* two digits and a letter.                                                *)
(***************************************************************************)
MaxTokens == 4

OutputTokens ==
    {<<"A", "N", "S", "W", "E", "R">>, <<"A", "n", "s", "w", "e", "r">>,
     <<":">>, <<" ">>, <<"3">>, <<"5">>, <<"x">>}

RECURSIVE Concat(_)
Concat(ts) == IF ts = <<>> THEN <<>> ELSE Head(ts) \o Concat(Tail(ts))

\* llm_response.raw_content
OutputTexts ==
    {Concat(ts) : ts \in UNION {[1..n -> OutputTokens] : n \in 0..MaxTokens}}

InitScorer ==
    /\ C = 1
    /\ client = "OllamaClient"
    /\ source = <<>>
    /\ stub = <<>>
    /\ server = ServerOk
    /\ RunInit
    /\ GenIdle
    /\ TunerIdle
    /\ ScoreIdle
    /\ NormIdle
    /\ output_text \in OutputTexts
    /\ predicted_index = None
    /\ OptionsIdle

\* parsed_index = ResponseScorer.parse_index(llm_response.raw_content)
ParseIndex ==
    /\ predicted_index = None
    /\ predicted_index' = Some(parse_index(output_text))
    /\ UNCHANGED output_text
    /\ UNCHANGED <<envVars, runVars, genVars, tunerVars, scoreVars, normVars,
                 optionVars>>

NextScorer == ParseIndex

SpecScorer == InitScorer /\ [][NextScorer]_vars

(***************************************************************************)
(* OllamaClient.generate: the options of the payload.  A dict is a         *)
(* function from the keys it holds to their values.                        *)
(***************************************************************************)
OptionKeys == {"temperature", "num_ctx", "top_p"}

OptionValues == {1, 2}

Dicts == UNION {[keys -> OptionValues] : keys \in SUBSET OptionKeys}

\* `if options_override:` : neither None nor an empty dict
NonEmpty(override) == override # None /\ DOMAIN override[1] # {}

\* d.update(o)
Update(d, o) ==
    [k \in DOMAIN d \cup DOMAIN o |-> IF k \in DOMAIN o THEN o[k] ELSE d[k]]

\* final_options = self.default_options.copy()
\* if options_override: final_options.update(options_override)
FinalOptions(defaults, override) ==
    IF NonEmpty(override) THEN Update(defaults, override[1]) ELSE defaults

\* final_options bound to self.default_options itself, without copy(): a
\* faulty variant, to show that C26 depends on the copy
M_DefaultsAfter(defaults, final) == final

\* self.default_options after the call: update() was applied to the copy
DefaultsAfter(defaults, final) == defaults

InitOptions ==
    /\ C = 1
    /\ client = "OllamaClient"
    /\ source = <<>>
    /\ stub = <<>>
    /\ server = ServerOk
    /\ RunInit
    /\ GenIdle
    /\ TunerIdle
    /\ ScoreIdle
    /\ NormIdle
    /\ ScorerIdle
    /\ default_options \in Dicts
    /\ options_override = None
    /\ final_options = None

\* a call generate(prompt, options_override) up to the payload
MergeOptions ==
    /\ \E override \in {None} \cup {Some(d) : d \in Dicts} :
          /\ options_override' = override
          /\ final_options' = Some(FinalOptions(default_options, override))
          /\ default_options' =
                 DefaultsAfter(default_options,
                               FinalOptions(default_options, override))
    /\ UNCHANGED <<envVars, runVars, genVars, tunerVars, scoreVars, normVars,
                   scorerVars>>

NextOptions == MergeOptions

SpecOptions == InitOptions /\ [][NextOptions]_vars

(***************************************************************************)
\* how many rows of the sink carry task t
TimesWritten(t) == Cardinality({i \in 1..Len(sink) : sink[i].task_id = t})

\* the tasks created and not yet harvested
InFlight == {t \in Tasks : task_state[t] # "new" /\ TimesWritten(t) = 0}

\* the position of task t in the completion order
CompletionRank(t) == CHOOSE k \in 1..Len(completed) : completed[k] = t

\* C1: no task is ever written twice, and a run that ends without a fatal
\* error has written exactly one result for every task it pulled from the
\* source and none for any other.
C1_OneResultPerTask ==
    /\ \A t \in Tasks : TimesWritten(t) <= 1
    /\ pc = "done" =>
          \A t \in Tasks : TimesWritten(t) = IF t <= rows_pulled THEN 1 ELSE 0

\* a run of three tasks under a ceiling of two has ended normally, every task
\* having failed, with three rows written
C1_Witness ==
    /\ pc = "done"
    /\ C = 2
    /\ rows_pulled = 3
    /\ Len(sink) = 3
    /\ \A i \in 1..Len(sink) : sink[i].raw_llm_output.error

\* C2: the number of tasks created and not yet harvested never exceeds the
\* configured ceiling C.
C2_ConcurrencyBound == Cardinality(InFlight) <= C

\* the engine waits at capacity with two tasks in flight and a third row in hand
C2_Witness ==
    /\ pc = "wait_first"
    /\ C = 2
    /\ Cardinality(InFlight) = 2
    /\ rows_pulled = 3

\* C3: a task whose generate call raises ends with a result, not an
\* exception: predicted index -1, not correct, the error in raw_output, the
\* task's id and ground truth kept; and nothing a task raised ever leaves run.
C3_TaskErrorsBecomeResults ==
    /\ \A t \in Tasks :
          (Finished(t) /\ ClientGenerate(t).kind = "raise") =>
              task_out[t] =
                  [raised |-> FALSE, exc |-> NoExc,
                   result |->
                       [task_id |-> source[t].id,
                        raw_llm_output |->
                            [error |-> TRUE, text |-> <<>>,
                             exc |-> ClientGenerate(t).exc],
                        parsed_index |-> -1,
                        ground_truth_index |-> source[t].ground_truth_index,
                        is_correct |-> FALSE,
                        latency_ms |-> 0]]
    /\ exc.cls \in {"", "OSError"}

\* the first task failed and was written, and the run went on to write a
\* second task and to end normally
C3_Witness ==
    /\ pc = "done"
    /\ Len(sink) >= 2
    /\ sink[1].raw_llm_output.error
    /\ sink[1].parsed_index = -1
    /\ sink[2].task_id # sink[1].task_id

\* the server of claim C4: connect timeout, connect timeout, then a 200
TimesOutTwiceThenAnswers ==
    /\ server[1] = HttpRaises("ConnectTimeout")
    /\ server[2] = HttpRaises("ConnectTimeout")
    /\ Disposition(server[3]) = "return"

\* C4: against a server that times out on connect twice and then answers,
\* the generate call of a pipeline task returns the third attempt's response,
\* and the task's result carries the model text and no error text.
C4_RetryThenSuccess ==
    (GenDone(gen) /\ gen_args = PipelineCallArgs /\ TimesOutTwiceThenAnswers) =>
        /\ gen.out = Returned(server[3].text, server[3].elapsed)
        /\ process_single_task([id |-> 1, ground_truth_index |-> None],
                               gen.out).result.raw_llm_output
               = ModelText(server[3].text)

\* every attempt meets a connection-level failure
AlwaysConnectFailure ==
    \A k \in 1..max_retries :
        server[k].exc \in {"ConnectTimeout", "ConnectError"}

\* C5: a well-formed generate call, made inside the session, on which every
\* attempt fails with a connect timeout or a refused connection makes
\* exactly 3 attempts, sleeps 5 seconds twice (10 seconds in all) and raises
\* the connection error that carries the attempt count and the last cause.
C5_ThreeAttemptsThenFail ==
    (/\ GenDone(gen)
     /\ BindsArguments(gen_args)
     /\ SessionCheck(client_attrs) = ""
     /\ AlwaysConnectFailure) =>
        /\ gen.posts = 3
        /\ gen.sleeps * RetryDelaySeconds = 10
        /\ gen.out = Raised([cls |-> "LLMConnectionError", attempts |-> 3,
                             cause |-> server[3].exc, status |-> 0])

\* attempt k was answered with a status outside 2xx
StatusErrorAt(k) == server[k].exc = "" /\ ~(server[k].status \in 200..299)

\* C6: once an attempt has been answered with a non-2xx status, the call has
\* failed with the connection error carrying that status code, that attempt
\* was the last one, and the only delays are those before it.
C6_StatusErrorNotRetried ==
    \A k \in 1..gen.posts :
        StatusErrorAt(k) =>
            /\ gen.pc = "raised"
            /\ gen.out.exc.cls = "LLMConnectionError"
            /\ gen.out.exc.status = server[k].status
            /\ gen.posts = k
            /\ gen.sleeps = k - 1

\* the second attempt, made after one delay, was answered 500 and the call
\* failed there
C6_Witness ==
    /\ gen.pc = "raised"
    /\ gen.posts = 2
    /\ gen.sleeps = 1
    /\ server[2] = HttpStatus(500)
    /\ gen.out.exc.status = 500

\* C7: every result in the sink that is marked correct has a ground truth,
\* equal to its predicted index; a finished task without ground truth is not
\* marked correct; evaluate(p, None) is false for every p.
C7_CorrectOnlyIfGraded ==
    /\ \A i \in 1..Len(sink) :
          sink[i].is_correct =>
              /\ sink[i].ground_truth_index # None
              /\ sink[i].ground_truth_index[1] = sink[i].parsed_index
    /\ \A t \in Tasks :
          (Finished(t) /\ source[t].ground_truth_index = None) =>
              ~task_out[t].result.is_correct
    /\ \A p \in -1..9 : ~evaluate(p, None)

\* the sink holds a correct result and a result without ground truth whose
\* text gave a predicted index
C7_Witness ==
    /\ \E i \in 1..Len(sink) : sink[i].is_correct
    /\ \E j \in 1..Len(sink) :
          /\ sink[j].ground_truth_index = None
          /\ sink[j].parsed_index >= 0
          /\ ~sink[j].is_correct

\* the rows of the sink that carry a ground truth
GradedRows == {i \in 1..Len(sink) : sink[i].ground_truth_index # None}

\* C8: total_processed is the number of written results with a ground truth,
\* total_correct the number of those that are correct, and
\* total_correct <= total_processed <= rows written.
C8_CountersMatchSink ==
    /\ total_processed = Cardinality(GradedRows)
    /\ total_correct = Cardinality({i \in GradedRows : sink[i].is_correct})
    /\ total_correct <= total_processed
    /\ total_processed <= Len(sink)

\* two rows written: a correct graded one, counted in both counters, and one
\* without ground truth, counted in neither
C8_Witness ==
    /\ Len(sink) = 2
    /\ total_processed = 1
    /\ total_correct = 1
    /\ \E i \in 1..Len(sink) : sink[i].ground_truth_index = None

\* C9: the rows of the sink are in completion order: a task that finished
\* before another is written before it.
C9_CompletionOrder ==
    \A i, j \in 1..Len(sink) :
        i < j => CompletionRank(sink[i].task_id) < CompletionRank(sink[j].task_id)

\* C10: the drain harvests only once every task in flight has finished, and
\* the final report is made only when the source is exhausted and every task
\* created has been written.
C10_DrainBeforeReport ==
    /\ pc = "harvest_all" => \A t \in pending_tasks : Finished(t)
    /\ report # "none" =>
          /\ rows_pulled = Len(source)
          /\ InFlight = {}
          /\ \A t \in Tasks : TimesWritten(t) = 1

\* the report is made after a drain that waited for two tasks at once
C10_Witness ==
    /\ report # "none"
    /\ C = 2
    /\ Len(sink) = 3
    /\ Cardinality(pending_tasks) = 2

\* C11: once a failure of the run itself is under way no further result is
\* written, and when the exception leaves run() no task that was created is
\* still scheduled: each one has finished or has been cancelled.
C11_CancelOnFatalFailure ==
    /\ [](pc = "raised" => \A t \in Tasks : task_state[t] # "scheduled")
    /\ [][exc # NoExc => sink' = sink]_vars

\* the sink failed on a result while another task was still in flight, and
\* that task was cancelled before the exception left run()
C11_Witness ==
    /\ pc = "raised"
    /\ \E t \in Tasks : task_state[t] = "cancelled"
    /\ \E t \in Tasks : Finished(t) /\ TimesWritten(t) = 0

C13_RunCompletes ==
    <>(/\ pc = "done"
       /\ report # "none"
       /\ rows_pulled = Len(source)
       /\ \A t \in Tasks : TimesWritten(t) = 1)

\* a run with ceiling 1 over two rows, which had to wait for capacity, is over
C13_Witness ==
    /\ pc = "done"
    /\ C = 1
    /\ Len(source) = 2
    /\ Len(sink) = 2
    /\ exc = NoExc

\* C14: a trial whose coroutine raised is recorded with the score zero and
\* aborts nothing: neither the study nor optimize() is left by the exception,
\* and optimize() ends only after all n_trials trials.
C14_TrialFailureScoredZero ==
    /\ \A k \in 1..n_trials :
          trials[k].st = "raised" =>
              /\ opt_pc # "raised"
              /\ loop_pc # "raised"
              /\ values[k].state # "fail"
    /\ (loop_pc \in {"returned", "raised"} /\ num_ctx) => trial_no = n_trials

\* C15: in a trial, a generate call that raised gives the result (not
\* correct, 10000 ms) and a call that returned gives its own graded result;
\* the only exception that leaves a trial is the division by an empty
\* sample, and a trial that is scored is scored over all sample tasks.
C15_TaskFailuresIsolated ==
    \A k \in 1..n_trials :
        /\ \A i \in 1..Len(trials[k].calls) :
              LET c == trials[k].calls[i]
              IN  c.st = "ended" =>
                      IF c.out.kind = "raise"
                      THEN c.result = TaskResult(FALSE, PenaltyLatency)
                      ELSE c.result =
                               TaskResult(
                                   evaluate(parse_index(c.out.raw_content),
                                            sample_tasks[i].ground_truth_index),
                                   c.out.client_latency_ms)
        /\ trials[k].st = "raised" => Len(sample_tasks) = 0
        /\ trials[k].st = "scored" => trials[k].score.den = Len(sample_tasks)

\* in one trial a call failed on a raw ConnectTimeout and another call was
\* answered correctly
C15_Witness ==
    \E k \in 1..n_trials :
        /\ trials[k].st = "gathering"
        /\ \E i, j \in 1..Len(trials[k].calls) :
              /\ trials[k].calls[i].st = "ended"
              /\ trials[k].calls[i].out.exc.cls = "ConnectTimeout"
              /\ trials[k].calls[j].st = "ended"
              /\ trials[k].calls[j].result.is_correct

\* C16: in every trial the generate calls in flight never number more than
\* C, and the permits of the trial's own semaphore account for them.
C16_TrialConcurrencyBound ==
    \A k \in 1..n_trials :
        /\ Cardinality(Running(k)) <= C
        /\ trials[k].st = "gathering" =>
              trials[k].permits + Cardinality(Running(k)) = C

\* with C = 1 and two sample tasks one call is in flight and the other
\* coroutine waits for the semaphore
C16_Witness ==
    \E k \in 1..n_trials :
        /\ C = 1
        /\ Cardinality(Running(k)) = 1
        /\ \E i \in 1..Len(trials[k].calls) : trials[k].calls[i].st = "created"

\* C17: at most one trial is on the event loop at a time, a trial is asked
\* for only after the study has the value of the trial before it, and the
\* generate calls in flight all belong to one trial.
C17_OneTrialAtATime ==
    /\ Cardinality(ActiveTrials) <= 1
    /\ \A k \in 2..n_trials :
          trials[k].st # "none" =>
              /\ values[k - 1].state = "complete"
              /\ trials[k - 1].st = "scored"
    /\ \A k, l \in 1..n_trials :
          (Running(k) # {} /\ Running(l) # {}) => k = l

\* the second trial has a call in flight and the first one is scored
C17_Witness ==
    /\ n_trials >= 2
    /\ Running(2) # {}
    /\ values[1].state = "complete"
    /\ opt_pc = "blocked"

\* C18: of two result lists over the same sample with equal accuracy, the
\* one with the lower mean latency has the strictly higher score.
C18_LowerLatencyScoresHigher ==
    (/\ scores # <<>>
     /\ SameAccuracy(outcomes[1], outcomes[2])
     /\ LowerMeanLatency(outcomes[1], outcomes[2]))
        => Higher(scores[1], scores[2])

\* two lists with one correct answer each, the first one quicker
C18_Witness ==
    /\ scores # <<>>
    /\ CorrectCount(outcomes[1]) = 1
    /\ CorrectCount(outcomes[2]) = 1
    /\ LowerMeanLatency(outcomes[1], outcomes[2])

\* C19 as stated: of two result lists over the same sample, the one with the
\* strictly higher accuracy has the strictly higher score, whatever the two
\* mean latencies are.
C19_AccuracyDominates ==
    (scores # <<>> /\ HigherAccuracy(outcomes[1], outcomes[2]))
        => Higher(scores[1], scores[2])

\* C19, amended: the list with the strictly higher accuracy has the strictly
\* higher score when its mean latency exceeds the other one's by less than
\* 1000000 ms times the difference of the accuracies.
C19_AccuracyDominatesWithinGap ==
    (/\ scores # <<>>
     /\ HigherAccuracy(outcomes[1], outcomes[2])
     /\ SumLatency(outcomes[1]) - SumLatency(outcomes[2])
            < 1000000 * (CorrectCount(outcomes[1]) - CorrectCount(outcomes[2])))
        => Higher(scores[1], scores[2])

\* the list of higher accuracy is the slower one, by less than the gap
C19_Witness ==
    /\ scores # <<>>
    /\ HigherAccuracy(outcomes[1], outcomes[2])
    /\ LowerMeanLatency(outcomes[2], outcomes[1])
    /\ Higher(scores[1], scores[2])

\* the ground truth of the row is a decimal integer that is no option text
\* and no index of the option list recovered from the row
OutOfRangeGroundTruth(r) ==
    /\ r.options # None
    /\ ~OptionsList(Strip(r.options[1])).raised
    /\ Truthy(gt_raw(r))
    /\ LET clean_gt == BeforeDot(Strip(gt_raw(r)[1]))
           options_list == OptionsList(Strip(r.options[1])).list
       IN  /\ \A i \in 1..Len(options_list) : options_list[i].str
           /\ Matches(options_list, clean_gt) = {}
           /\ IsDigit(clean_gt)
           /\ ToInt(clean_gt, 1, Len(clean_gt)) >= Len(options_list)

\* C20: a task that stream_input yields has at least one option and a
\* ground truth index that is absent or an index of its option list; a row
\* whose ground truth is an integer out of range is yielded all the same,
\* without ground truth.
C20_EmittedTaskWellFormed ==
    /\ yielded.emitted =>
          /\ Len(yielded.options) >= 1
          /\ yielded.ground_truth_index # None =>
                /\ 0 <= yielded.ground_truth_index[1]
                /\ yielded.ground_truth_index[1] < Len(yielded.options)
    /\ (row_num > 0 /\ OutOfRangeGroundTruth(row_dict)) =>
          /\ yielded.emitted
          /\ yielded.ground_truth_index = None

\* a row with the two options A and B and the ground truth 2 was yielded as
\* a task without ground truth
C20_Witness ==
    /\ row_num > 0
    /\ row_dict.options = Some(OptsList)
    /\ row_dict.ground_truth = Some(Gt2)
    /\ yielded.emitted
    /\ Len(yielded.options) = 2
    /\ yielded.ground_truth_index = None

\* C21: a row whose body raises (no option list can be recovered, or the
\* row does not validate) is skipped and the stream goes on: stream_input
\* never ends with an exception, a further row can still be read after a
\* skipped one, and the tasks yielded plus the rows skipped number the rows
\* read.
C21_SkippedRowsNeverAbort ==
    /\ norm_pc # "raised"
    /\ n_yielded + n_skipped = row_num
    /\ (row_num > 0 /\ ~yielded.emitted) =>
          /\ yielded.error \in {"ValidationError", "DataValidationError"}
          /\ norm_pc \in {"rows", "eof"}

\* the first of two rows was skipped, and the second one was yielded as a
\* task
C21_Witness ==
    /\ row_num = 2
    /\ n_skipped = 1
    /\ n_yielded = 1
    /\ yielded.emitted

\* the order of the recovery strategies for one text, given what the literal
\* parse (lit) and the scan for quoted spans (spans) make of it and the list
\* the row body ends up with (recovered)
RecoveryOrder(options_str, lit, spans, recovered) ==
    /\ (lit.kind = "list" /\ Len(lit.items) > 1) =>
          (~recovered.raised /\ recovered.list = lit.items)
    /\ (lit.kind = "list" /\ Len(lit.items) = 1 /\ Len(spans) > 1) =>
          (~recovered.raised /\ recovered.list = spans)
    /\ (lit.kind # "list" /\ spans # <<>>) =>
          (~recovered.raised /\ recovered.list = spans)
    /\ (/\ lit.kind # "list"
        /\ spans = <<>>
        /\ Contains(options_str, ",")
        /\ ~Contains(options_str, "[")) =>
          (~recovered.raised /\ recovered.list = SplitComma(options_str))

\* C22: the option list of a row is the first that succeeds of: the literal
\* parse when it gives more than one element; the quoted spans when the
\* literal has one element and the scan finds more than one span; otherwise
\* the quoted spans of the text; otherwise, for a text with a comma and no
\* bracket, the trimmed comma split.
C22_RecoveryOrder ==
    (row_num > 0 /\ row_dict.options # None) =>
        RecoveryOrder(Strip(row_dict.options[1]),
                      LiteralEval(Strip(row_dict.options[1])),
                      regex_matches(Strip(row_dict.options[1])),
                      OptionsList(Strip(row_dict.options[1])))

\* the positions of a text at which the marker stands, in any case, with an
\* integer after it (white space and one colon or dash may come between)
Markers(s) == {i \in 1..Len(s) : AnswerMatchAt(s, i)}

\* the integer written from position a on
IntegerAt(s, a) == ToInt(s, a, DigitsEnd(s, a))

\* C23: parse_index returns the integer that follows an ANSWER marker when
\* the text has one, otherwise the last standalone integer of the text,
\* otherwise -1; the result is never below -1, and it is -1 only for a text
\* without a standalone integer.
C23_ParseIndex ==
    predicted_index # None =>
        /\ predicted_index[1] >= -1
        /\ Markers(output_text) # {} =>
              \E i \in Markers(output_text) :
                  predicted_index[1] =
                      IntegerAt(output_text, AnswerGroupStart(output_text, i))
        /\ (Markers(output_text) = {} /\ BareIntStarts(output_text) # {}) =>
              predicted_index[1] =
                  IntegerAt(output_text, Max(BareIntStarts(output_text)))
        /\ (Markers(output_text) = {} /\ BareIntStarts(output_text) = {}) =>
              predicted_index[1] = -1
        /\ predicted_index[1] = -1 => BareIntStarts(output_text) = {}

\* the output ANSWER3 5: the integer after the marker was returned, not the
\* last integer of the text
C23_Witness ==
    /\ output_text = <<"A", "N", "S", "W", "E", "R", "3", " ", "5">>
    /\ predicted_index = Some(3)

\* the tasks whose result handle_result has dealt with: they finished, a
\* wait handed them over in `done`, and the loop over `done` has visited them
Harvested ==
    {t \in Tasks :
        /\ task_state[t] = "finished"
        /\ t \notin done
        /\ t \in pending_tasks =>
              pc \in {"harvest_all", "finally", "report", "aexit", "done",
                      "raised"}}

\* C24: at every point of a run the output file holds the header and one
\* whole row for each result harvested so far, and nothing else; what is in
\* the file is never changed afterwards, only appended to, so the file at any
\* point is a prefix of the final file.
C24_IncrementalOutput ==
    /\ [](/\ header_written => flushed = 1 + Len(sink)
          /\ ~header_written => (flushed = 0 /\ sink = <<>>)
          /\ \A t \in Tasks :
                TimesWritten(t) = IF t \in Harvested THEN 1 ELSE 0)
    /\ [][/\ flushed' >= flushed
          /\ Len(sink') >= Len(sink)
          /\ SubSeq(sink', 1, Len(sink)) = sink]_vars

\* in the middle of a run, with a task still in flight and a row in hand, the
\* file holds the header and the row of the one result harvested
C24_Witness ==
    /\ pc = "create"
    /\ pending_tasks # {}
    /\ Len(sink) = 1
    /\ flushed = 2

\* C25: a run that ends normally reports the accuracy total_correct /
\* total_processed, of the graded rows written, when total_processed > 0, and
\* reports that no rows were graded otherwise; no division by zero ever
\* happens, also when no task has a ground truth or the source is empty.
C25_FinalAccuracy ==
    /\ exc.cls # "ZeroDivisionError"
    /\ pc = "done" => report # "none"
    /\ report = "accuracy" =>
          /\ total_processed > 0
          /\ accuracy.den = Cardinality(GradedRows)
          /\ accuracy.num =
                 100 * Cardinality({i \in GradedRows : sink[i].is_correct})
    /\ report = "no_rows" =>
          /\ total_processed = 0
          /\ GradedRows = {}
          /\ accuracy = NoAccuracy

\* a run of two tasks without ground truth has ended: two rows written, none
\* graded, and the report says so
C25_Witness ==
    /\ pc = "done"
    /\ Len(sink) = 2
    /\ GradedRows = {}
    /\ report = "no_rows"

\* C26: the options a generate call sends are the client's defaults merged
\* with the override: every key of the override has the override's value,
\* every other key of the defaults has its default value, there is no other
\* key, and the call leaves the client's defaults as they were.
C26_OptionsMerge ==
    /\ [](final_options # None =>
            /\ DOMAIN final_options[1] =
                   DOMAIN default_options \cup
                       (IF options_override = None THEN {}
                        ELSE DOMAIN options_override[1])
            /\ \A k \in DOMAIN final_options[1] :
                  final_options[1][k] =
                      IF options_override # None
                             /\ k \in DOMAIN options_override[1]
                      THEN options_override[1][k]
                      ELSE default_options[k])
    /\ [][default_options' = default_options]_vars

\* a call whose override gives temperature anew and adds top_p, while num_ctx
\* keeps its default
C26_Witness ==
    /\ options_override # None
    /\ final_options # None
    /\ DOMAIN default_options = {"temperature", "num_ctx"}
    /\ DOMAIN options_override[1] = {"temperature", "top_p"}
    /\ default_options["temperature"] = 1
    /\ final_options[1]["temperature"] = 2
    /\ final_options[1]["num_ctx"] = default_options["num_ctx"]
    /\ final_options[1]["top_p"] = options_override[1]["top_p"]

C28_CapacityWait ==
    /\ [](pc = "create" =>
            /\ Cardinality(pending_tasks) < C
            /\ done = {}
            /\ \A t \in Tasks : Finished(t) => TimesWritten(t) = 1)
    /\ [][pc = "wait_first" =>
            \A t \in Tasks : task_state[t] = "new" => task_state'[t] = "new"]_vars
    /\ [][(pc = "wait_first" /\ pc' # "wait_first") =>
            /\ \E t \in pending_tasks : Finished(t)
            /\ done' = {t \in pending_tasks : Finished(t)}
            /\ pending_tasks' = {t \in pending_tasks : ~Finished(t)}
            /\ \A t \in pending_tasks' : task_state'[t] = "scheduled"]_vars

\* under a ceiling of two, both tasks in flight finished during one wait and
\* both were written before the third task is created
C28_Witness ==
    /\ pc = "create"
    /\ C = 2
    /\ rows_pulled = 3
    /\ Len(sink) = 2
    /\ pending_tasks = {}

\* C29: after a normal drain the finally block, which calls cancel() on
\* every task of pending_tasks, changes nothing: no row written, no counter,
\* no result of a task, and every task that had finished is still finished
\* (none is cancelled) when the run ends.
C29_CancelAfterDrainIsNoOp ==
    /\ [][(pc = "finally" /\ exc = NoExc) =>
            /\ sink' = sink
            /\ total_processed' = total_processed
            /\ total_correct' = total_correct
            /\ task_out' = task_out
            /\ \A t \in Tasks : Finished(t) => task_state'[t] = "finished"]_vars
    /\ []((pc \in {"report", "aexit", "done"} /\ exc = NoExc) =>
            \A t \in Tasks : t <= rows_pulled => Finished(t))

\* the finally block has run after a drain of two tasks: both are still in
\* pending_tasks, finished, and their two rows are in the sink
C29_Witness ==
    /\ pc = "report"
    /\ Cardinality(pending_tasks) = 2
    /\ \A t \in pending_tasks : Finished(t)
    /\ Len(sink) = 2
    /\ total_processed = 2

\* C30: the sample is drawn once, at construction, with min(sample_size,
\* len(all_tasks)) tasks out of all_tasks, and never changes; every trial has
\* one coroutine per sample task, whose call is made once and, once ended,
\* stays ended; and a trial is scored only from the state in which every one
\* of its calls has ended.
C30_FixedSamplePerTrial ==
    /\ [](/\ Len(sample_tasks) = Min({sample_size, Len(all_tasks)})
          /\ \A i \in SampleIndexes :
                \E j \in 1..Len(all_tasks) : sample_tasks[i] = all_tasks[j]
          /\ \A i, j \in SampleIndexes :
                sample_tasks[i].id = sample_tasks[j].id => i = j
          /\ \A k \in 1..n_trials :
                trials[k].st = "gathering" =>
                    DOMAIN trials[k].calls = SampleIndexes)
    /\ [][sample_tasks' = sample_tasks]_vars
    /\ [][\A k \in 1..n_trials :
            /\ \A i \in 1..Len(trials[k].calls) :
                  (trials'[k].st = "gathering"
                       /\ trials[k].calls[i].st # trials'[k].calls[i].st) =>
                      \/ /\ trials[k].calls[i].st = "created"
                         /\ trials'[k].calls[i].st = "running"
                      \/ /\ trials[k].calls[i].st = "running"
                         /\ trials'[k].calls[i].st = "ended"
            /\ (trials[k].st # "scored" /\ trials'[k].st = "scored") =>
                  /\ trials[k].st = "gathering"
                  /\ \A i \in SampleIndexes :
                        trials[k].calls[i].st = "ended"]_vars

\* a tuner built over two tasks with sample_size 1: the first trial is
\* scored and the second one has its one call in flight
C30_Witness ==
    /\ Len(all_tasks) = 2
    /\ sample_size = 1
    /\ Len(sample_tasks) = 1
    /\ n_trials = 2
    /\ trials[1].st = "scored"
    /\ trials[2].st = "gathering"
    /\ Running(2) = {1}

\* the positions (from 0) of the yielded options that equal the text,
\* case-sensitively
ExactMatches(options, text) ==
    {i \in 0..(Len(options) - 1) : options[i + 1] = text}

\* C31: for every task stream_input yields, with clean_gt the ground truth
\* value trimmed and cut at its first dot: when clean_gt is one of the task's
\* options, ground_truth_index is the index of its first occurrence, also
\* when clean_gt reads as an index in range; only when it is no option is it
\* read as a decimal integer, kept if it is below the option count and
\* dropped otherwise; a row without ground truth value has none.
C31_ExactMatchBeforeIndex ==
    (row_num > 0 /\ yielded.emitted) =>
        IF ~Truthy(gt_raw(row_dict)) THEN yielded.ground_truth_index = None
        ELSE LET clean_gt == BeforeDot(Strip(gt_raw(row_dict)[1]))
                 exact == ExactMatches(yielded.options, clean_gt)
             IN  IF exact # {}
                 THEN yielded.ground_truth_index = Some(Min(exact))
                 ELSE IF /\ IsDigit(clean_gt)
                         /\ ToInt(clean_gt, 1, Len(clean_gt))
                                < Len(yielded.options)
                 THEN yielded.ground_truth_index
                          = Some(ToInt(clean_gt, 1, Len(clean_gt)))
                 ELSE yielded.ground_truth_index = None

\* both readings apply and differ: the options are '1' and '0' and the
\* ground truth is 1, which is the option at index 0 and the index of the
\* option '0'; the task carries index 0
C31_Witness ==
    /\ row_num > 0
    /\ yielded.emitted
    /\ yielded.options = <<<<"1">>, <<"0">>>>
    /\ row_dict.ground_truth = Some(Gt1)
    /\ yielded.ground_truth_index = Some(0)

\* C32: a generate call with both arguments, made on a client whose session
\* was never entered, posts no HTTP request and raises RuntimeError.
C32_GenerateOutsideSession ==
    (/\ GenDone(gen)
     /\ BindsArguments(gen_args)
     /\ client_attrs = AfterInit) =>
        /\ gen.posts = 0
        /\ gen.pc = "raised"
        /\ gen.out.exc.cls = "RuntimeError"

====
